---- MODULE Spec2Model ----
(***************************************************************************)
(* A model of the GridStore file handle of lib/gridfs/grid_store.js: the   *)
(* open / write / read / seek / close protocol over the two collections    *)
(* <root>.files and <root>.chunks.  Every database round trip is one step  *)
(* that either succeeds or fails; the handle's fields are the record gs.   *)
(*                                                                         *)
(* lib/gridfs/chunk.js is not part of the sources at hand: the Chunk       *)
(* operators below follow the specification's section 4.1 (a byte buffer   *)
(* with a cursor, write at the cursor, readSlice from the cursor, save as  *)
(* an upsert keyed by (files_id, n)).                                      *)
(*                                                                         *)
(* GridStore never looks at the value of a byte, so a write call is given  *)
(* by its length alone and its bytes are fresh, pairwise distinct values   *)
(* (nbytes + 1, nbytes + 2, ...): any reordering, loss or duplication of   *)
(* bytes shows in the values.                                              *)
(*                                                                         *)
(* The Cursor of the driver (its nextObject, each, toArray, count and      *)
(* close) is the record cursor.  The core cursor it extends is not part of *)
(* the sources at hand: its fetch primitive follows the specification's    *)
(* section 4.3.  The documents of a result set are pairwise distinct       *)
(* values in the server's order.                                           *)
(***************************************************************************)
EXTENDS Integers, Sequences, FiniteSets, TLC

\* ------------------------------------------------------------------ bounds
MaxChunkSize == 2     \* chunk sizes range over 1..MaxChunkSize
MaxPos == 5           \* file positions range over 0..MaxPos
MaxData == 3          \* longest buffer handed to one write call
MaxOps == 3           \* calls of the caller in one behaviour of Spec
MaxFail == 1          \* round trips that fail in one behaviour of Spec
OpsRW == 6            \* calls of the caller in one behaviour of SpecRW
OpsRead == 6          \* calls of the caller in one behaviour of SpecRead
OpsAppend == 4        \* calls of the caller in one behaviour of SpecAppend
OpsConcern == 2       \* calls of the caller in one behaviour of SpecConcern
OpsSize == 4          \* calls of the caller in one behaviour of SpecSize
OpsBulk == 1          \* calls of the caller in one behaviour of SpecBulk
MaxNames == 2         \* longest list of names handed to the static unlink
MaxDocs == 3          \* documents in the result set of a cursor
MaxBatch == 2         \* documents the server sends in one batch
MaxRetries == 2       \* largest numberOfRetries option of a tailable cursor
MaxTransient == 3     \* tailable-retry errors in a row before a document
OpsCursor == 3        \* calls of the caller in one behaviour of SpecCursor
OpsFan == 3           \* calls of the caller in one behaviour of SpecFan
OpsPipe == 3          \* calls of the caller in one behaviour of SpecPipe
OpsDuplex == 4        \* calls of the caller in one behaviour of SpecDuplex

\* Chunk.DEFAULT_CHUNK_SIZE, scaled down from 255 KiB
DEFAULT_CHUNK_SIZE == 2

DEFAULT_CONTENT_TYPE == "binary/octet-stream"
IO_SEEK_SET == 0
IO_SEEK_CUR == 1
IO_SEEK_END == 2

REFERENCE_BY_FILENAME == 0
REFERENCE_BY_ID == 1

\* Cursor.INIT, Cursor.OPEN, Cursor.CLOSED, Cursor.GET_MORE
INIT == 0
OPEN == 1
CLOSED == 2
GET_MORE == 3

\* the numberOfRetries a cursor takes when the option is not given
DefaultNumberOfRetries == 5

ChunkSizes == 1..MaxChunkSize
\* the values an uninitialised Buffer byte can show
UninitBytes == {0, 255}
\* the id the caller passes when it refers to a file by id; generated
\* ObjectIDs are the ids above it
CallerId == 1
FileName == "f"

\* write-concern options: w is a number or not given, the flags j, journal
\* and fsync are true, false or not given
NoW == 9
Tri == {"undefined", "true", "false"}
Concerns == [w : {NoW, 0, 1}, j : Tri, journal : Tri, fsync : Tri]
NoConcern == [w |-> NoW, j |-> "undefined", journal |-> "undefined", fsync |-> "undefined"]

\* the safe option: not given, a boolean, or an object of write-concern options
NoSafe == [type |-> "undefined", value |-> FALSE, object |-> NoConcern]
Safes ==
  {NoSafe}
    \cup {[type |-> "boolean", value |-> b, object |-> NoConcern] : b \in BOOLEAN}
    \cup {[type |-> "object", value |-> FALSE, object |-> c] : c \in Concerns}

\* no option given
NoOptions ==
  [chunk_size |-> 0, chunkSize |-> 0, content_type |-> "null",
   metadata |-> "null", w |-> NoW, j |-> "undefined",
   journal |-> "undefined", fsync |-> "undefined", safe |-> NoSafe]

NoDate == 0 - 1

Min(a, b) == IF a < b THEN a ELSE b
Max(a, b) == IF a < b THEN b ELSE a
Fresh(k, len) == [i \in 1..len |-> k + i]

\* Buffer.prototype.slice(start, end): a negative index counts from the end
Index(len, i) == IF i < 0 THEN Max(len + i, 0) ELSE Min(i, len)
BufSlice(b, start, end) ==
  SubSeq(b, Index(Len(b), start) + 1, Index(Len(b), end))

VARIABLES
  env,       \* the caller: its budget of calls and failures, what it opens
  files,     \* <root>.files : set of metadata documents
  chunks,    \* <root>.chunks: set of chunk documents [files_id, n, data]
  gs,        \* the GridStore handle
  pc,        \* the round trip the handle's call in flight waits for
  loc,       \* the locals of the call in flight
  saves,     \* chunk saves of a write fanned out and not yet answered
  cb,        \* the callback of the last call: times invoked, error, data
  hist,      \* history of the session, for stating the properties
  nOps, nFail, nbytes,
  bulk,      \* the static GridStore.unlink call: its counter, its unlinks
  cursor,    \* the Cursor: its closure variables, its fetches, its callback
  stream     \* the GridStoreStream: its closure variables, its calls in flight

vars == <<env, files, chunks, gs, pc, loc, saves, cb, hist, nOps, nFail, nbytes,
          bulk, cursor, stream>>

\* ------------------------------------------------------------------- Chunk
NoChunk == [chunkNumber |-> -1, data |-> <<>>, position |-> 0]

\* new Chunk(file, {n: n})
ChunkNew(n) == [chunkNumber |-> n, data |-> <<>>, position |-> 0]

\* new Chunk(file, doc) for a stored chunk document
ChunkOfDoc(d) == [chunkNumber |-> d.n, data |-> d.data, position |-> 0]

ChunkLength(c) == Len(c.data)

\* chunk.write(bytes): the bytes go in at the cursor, the buffer grows as
\* needed (a hole left of the cursor reads as 0), the cursor moves past them
ChunkWrite(c, bytes) ==
  LET p == c.position
      newLen == Max(Len(c.data), p + Len(bytes))
  IN [c EXCEPT
        !.data = [i \in 1..newLen |->
                    IF i > p /\ i <= p + Len(bytes) THEN bytes[i - p]
                    ELSE IF i <= Len(c.data) THEN c.data[i] ELSE 0],
        !.position = p + Len(bytes)]

\* chunk.readSlice(n): the bytes from the cursor on, at most n and at most
\* what remains; Slice is the result and SliceChunk the chunk afterwards
SliceLen(c, n) == Max(0, Min(n, Len(c.data) - c.position))
Slice(c, n) == SubSeq(c.data, c.position + 1, c.position + SliceLen(c, n))
SliceChunk(c, n) == [c EXCEPT !.position = c.position + SliceLen(c, n)]

\* chunk.save(): upsert of the chunk document keyed by (files_id, n)
ChunkSave(cs, id, c) ==
  {d \in cs : ~(d.files_id = id /\ d.n = c.chunkNumber)}
    \cup {[files_id |-> id, n |-> c.chunkNumber, data |-> c.data]}

\* ---------------------------------------------------------------- database
ChunksOf(cs, id) == {d \in cs : d.files_id = id}

RECURSIVE ConcatFrom(_, _)
ConcatFrom(ds, k) ==
  IF \A d \in ds : d.n < k THEN <<>>
  ELSE LET here == {d \in ds : d.n = k}
       IN (IF here = {} THEN <<>> ELSE (CHOOSE d \in here : TRUE).data)
            \o ConcatFrom(ds, k + 1)

\* the bytes of a file as its chunk documents hold them, in the order of n;
\* this is also what the filemd5 command digests
FileBytes(cs, id) == ConcatFrom(ChunksOf(cs, id), 0)

DbIds == {d._id : d \in files} \cup {d.files_id : d \in chunks}

\* new ObjectID(): an id no document carries
NewObjectID == CHOOSE i \in (CallerId + 1)..(CallerId + 1 + Cardinality(DbIds)) : i \notin DbIds

\* the round trips that may still fail
Outcomes == IF nFail < env.fails THEN {TRUE, FALSE} ELSE {TRUE}
Failed(ok) == IF ok THEN nFail ELSE nFail + 1

\* ------------------------------------------------------------ the handle
NoLoc == [n |-> 0, target |-> 0, len |-> 0, buf |-> <<>>, index |-> 0,
          start |-> 0, toWrite |-> 0, finalClose |-> FALSE, md5 |-> <<>>,
          value |-> 0]

\* hist: of the last write session (mode, id of the file, bytes the file held
\* and length its document gave when it was opened, bytes written since,
\* pure: nothing but write and close was called, closed: its close has
\* succeeded and nothing was written after); of the handle at hand (found:
\* open found a document, lastSeek: the target of the seek just before the
\* read, fullErr and full: the outcome of a read to the end made right after
\* open, readLen: the length the last read asked for); options: the options
\* the last constructor call was given
NoHist == [mode |-> "none", id |-> 0, old |-> <<>>, oldLen |-> 0,
           written |-> <<>>, pure |-> FALSE, closed |-> FALSE,
           found |-> FALSE, lastSeek |-> -1, fullErr |-> "pending",
           full |-> <<>>, readLen |-> 0, options |-> NoOptions]

\* what is forgotten when a handle is made or opened
Forget(h, mode) ==
  [h EXCEPT !.found = FALSE, !.lastSeek = -1, !.fullErr = "pending",
            !.full = <<>>, !.readLen = 0,
            !.pure = @ /\ mode = "r",
            !.closed = @ /\ mode = "r"]

Modes == {"r", "w", "w+", "a"}

Options == [chunk_size : {0} \cup ChunkSizes, chunkSize : {0, 1},
            content_type : {"null", "text/plain"}, metadata : {"null", "m1"},
            w : {NoW, 0, 1}, j : Tri, journal : Tri, fsync : Tri, safe : Safes]

\* the db object a handle is made on: its options and its safe property
Dbs == [options : Concerns, safe : Safes \ {NoSafe}]
PlainDb == [options |-> NoConcern,
            safe |-> [type |-> "boolean", value |-> FALSE, object |-> NoConcern]]

\* the write concern a handle works with
DefaultConcern == [w |-> 1, j |-> "undefined", fsync |-> "undefined"]

Started(op) == [op |-> op, n |-> 0, err |-> "none", data |-> <<>>]
Called(c, err, data) == [c EXCEPT !.n = @ + 1, !.err = err, !.data = data]

NoHandle ==
  [mode |-> "r", referenceBy |-> REFERENCE_BY_ID, fileId |-> 0,
   filename |-> "undefined", options |-> NoOptions,
   isOpen |-> FALSE, position |-> 0, length |-> -1,
   writeConcern |-> DefaultConcern,
   internalChunkSize |-> DEFAULT_CHUNK_SIZE, uploadDate |-> NoDate,
   contentType |-> "undefined", metadata |-> "undefined",
   currentChunk |-> NoChunk]

\* the static unlink: no call was made
NoBulk == [names |-> <<>>, isArray |-> FALSE, tc |-> 0, items |-> <<>>,
           called |-> 0, err |-> "none", started |-> FALSE]

\* the callback of a cursor call: times invoked, the error, the kind of the
\* value it was given last, the document or count given last (0 for null),
\* the documents it was given in all
NoResult ==
  [op |-> "none", n |-> 0, err |-> "none", kind |-> "none", doc |-> 0,
   items |-> <<>>]

\* the last call of limit, skip, batchSize or sort: its argument, what it
\* threw, and how many such calls were made
NoShape == [op |-> "none", value |-> 0, err |-> "none", n |-> 0]

\* an argument of limit, skip or batchSize that is not a number
NotNumber == 0 - 1

\* new Cursor(bson, ns, cmd, connection, callbacks, options): options and
\* cmd as given; state, numberOfRetries and currentNumberOfRetries of the
\* closure; of the core cursor the documents buffered, the dead and killed
\* flags, and
\* on the server the result set (all), the part of it not yet sent (rest)
\* and the tailable-retry errors it answers first (transient); pc is the
\* round trip or timer the call in flight waits for, items the array of
\* toArray; ops, fetches, failed, retried and got count the calls made, the
\* fetches issued, the fetches failed, the retries of the call in flight,
\* the documents nextObject and each have handed out, the documents a
\* toArray had taken when it ended with an error, whether a toArray has
\* given its array, the retry timers that have fired and the 'close' events
\* emitted
NewCursor(tailable, retries, orderby, query, docs, transient) ==
  [options |-> [tailable |-> tailable, numberOfRetries |-> retries],
   cmd |-> [orderby |-> orderby, query |-> query, limit |-> 0, skip |-> 0,
            batchSize |-> 0],
   shape |-> NoShape,
   state |-> INIT,
   numberOfRetries |-> IF retries <= 0 THEN DefaultNumberOfRetries ELSE retries,
   currentNumberOfRetries |-> IF retries <= 0 THEN DefaultNumberOfRetries ELSE retries,
   buffer |-> <<>>, dead |-> FALSE, killed |-> FALSE,
   all |-> docs, rest |-> docs, transient |-> transient,
   pc |-> "idle", items |-> <<>>, cb |-> NoResult,
   ops |-> 0, fetches |-> 0, failed |-> 0, retried |-> 0, got |-> <<>>,
   dropped |-> <<>>, arrayed |-> FALSE, timers |-> 0, emitted |-> 0]

\* numberOfRetries is not given
NoRetries == 0 - 1

NoCursor == NewCursor(FALSE, NoRetries, "null", TRUE, <<>>, 0)

\* the documents a file of len bytes holds after it was written with chunk
\* size size through a 'w' handle by id and closed: the chunks writeBuffer
\* cuts, and the metadata document of close
StoredChunks(len, size) ==
  {[files_id |-> CallerId, n |-> k,
    data |-> [i \in 1..Min(size, len - k * size) |-> k * size + i]] :
     k \in 0..((len + size - 1) \div size - 1)}

StoredFile(len, size) ==
  [_id |-> CallerId, filename |-> FileName, contentType |-> "image/png",
   length |-> len, chunkSize |-> size, uploadDate |-> 0, metadata |-> "m0",
   md5 |-> Fresh(0, len)]

\* -------------------------------------------------------- GridStoreStream
\* The duplex stream over a handle. Its closure variables are endCalled,
\* totalBytesToRead and seekPosition. The calls it makes on the handle
\* overlap, so every call in flight is a task of its own: the round trip it
\* waits for (pc), what the stream does when it calls back (cont), whether
\* end was given a callback (callback), the buffer a write after open is to
\* write (data), the chunk saves it waits for (saves, toWrite), the metadata
\* document of a close (doc), the length, buffer and index of a read and the
\* chunk number asked for (len, buf, index, n).
\* The rest records what the stream did: bytes pushed to the consumer and
\* end-of-stream signals (pushed, eos), 'drain', 'end' and 'error' events,
\* calls of end's callback, exceptions thrown, calls of gs.open and gs.close,
\* calls of gs.write that wrote, the buffers of the write calls and of the
\* gs.write calls that wrote, in the order they were made (asked, wrote), the end call (ended; finalChunk: it
\* had a chunk to write; early: a close was started while the final write
\* was in flight) and whether an open dropped data of an earlier write (reset)
NaN == 0 - 1

NoDoc ==
  [_id |-> 0, filename |-> "undefined", contentType |-> "undefined",
   length |-> 0, chunkSize |-> 0, uploadDate |-> NoDate,
   metadata |-> "undefined", md5 |-> <<>>]

NoStream ==
  [made |-> FALSE, endCalled |-> FALSE, totalBytesToRead |-> NaN,
   seekPosition |-> 0, piping |-> FALSE, reading |-> FALSE, tasks |-> <<>>,
   pushed |-> <<>>, eos |-> 0, drains |-> 0, ends |-> 0, errors |-> 0,
   callbacks |-> 0, thrown |-> 0, opens |-> 0, writes |-> 0, closes |-> 0,
   asked |-> <<>>, wrote |-> <<>>, ended |-> FALSE, finalChunk |-> FALSE,
   early |-> FALSE, reset |-> FALSE]

\* the database is empty, no handle exists
InitEmpty(e) ==
  /\ env = e
  /\ bulk = NoBulk
  /\ cursor = NoCursor
  /\ stream = NoStream
  /\ files = {}
  /\ chunks = {}
  /\ gs = NoHandle
  /\ pc = "none"
  /\ loc = NoLoc
  /\ saves = {}
  /\ cb = Started("none")
  /\ hist = NoHist
  /\ nOps = 0
  /\ nFail = 0
  /\ nbytes = 0

\* the database holds one file stored by an earlier session
InitStored(e) ==
  /\ env = e
  /\ bulk = NoBulk
  /\ cursor = NoCursor
  /\ stream = NoStream
  /\ \E len \in 0..MaxPos, size \in ChunkSizes :
       /\ files = {StoredFile(len, size)}
       /\ chunks = StoredChunks(len, size)
       /\ nbytes = len
  /\ gs = NoHandle
  /\ pc = "none"
  /\ loc = NoLoc
  /\ saves = {}
  /\ cb = Started("none")
  /\ hist = NoHist
  /\ nOps = 0
  /\ nFail = 0

PlainOptions ==
  [chunk_size : {0} \cup ChunkSizes, chunkSize : {0},
   content_type : {"null"}, metadata : {"null"},
   w : {NoW}, j : {"undefined"}, journal : {"undefined"},
   fsync : {"undefined"}, safe : {NoSafe}]

Init ==
  \/ InitEmpty([ops |-> MaxOps, fails |-> MaxFail, modes |-> Modes, opts |-> PlainOptions, db |-> PlainDb])
  \/ InitStored([ops |-> MaxOps, fails |-> MaxFail, modes |-> Modes, opts |-> PlainOptions, db |-> PlainDb])

\* _setWriteConcernHash: journal is stored under j, false flags are dropped
setWriteConcernHash(o) ==
  [w |-> o.w,
   j |-> IF o.j = "true" \/ o.journal = "true" THEN "true" ELSE "undefined",
   fsync |-> IF o.fsync = "true" THEN "true" ELSE "undefined"]

\* the test _getWriteConcern makes of an options object: w is given or one
\* of the flags is a boolean
GivesConcern(o) ==
  o.w # NoW \/ o.j # "undefined" \/ o.journal # "undefined" \/ o.fsync # "undefined"

\* {w: (safe ? 1 : 0)}
ConcernOfSafe(safe) ==
  [w |-> IF safe.value THEN 1 ELSE 0, j |-> "undefined", fsync |-> "undefined"]

\* the options _getWriteConcern settles on, before it validates them
FinalOptions(db, options) ==
  IF GivesConcern(options) THEN setWriteConcernHash(options)
  ELSE IF options.safe.type = "object" THEN setWriteConcernHash(options.safe.object)
  ELSE IF options.safe.type = "boolean" THEN ConcernOfSafe(options.safe)
  ELSE IF GivesConcern(db.options) THEN setWriteConcernHash(db.options)
  ELSE IF db.safe.type = "object" /\ GivesConcern(db.safe.object)
       THEN setWriteConcernHash(db.safe.object)
  ELSE IF db.safe.type = "boolean" THEN ConcernOfSafe(db.safe)
  ELSE DefaultConcern

\* the combination _getWriteConcern throws on; undefined < 1 is false
InvalidConcernMutant(f) ==
  f.w # NoW /\ f.w < 1 /\ f.fsync = "true"

InvalidConcern(f) ==
  f.w # NoW /\ f.w < 1 /\ (f.j = "true" \/ f.fsync = "true")

\* new GridStore(db, id, filename, mode, options): by id (id, filename, mode)
\* or by file name (filename, mode); a handle made earlier is dropped.
\* _getWriteConcern throws on an invalid write concern: no handle is made
GridStore(byId, mode, options) ==
  /\ pc \in {"none", "idle"}
  /\ saves = {}
  /\ nOps < env.ops
  /\ nOps' = nOps + 1
  /\ IF InvalidConcern(FinalOptions(env.db, options))
     THEN /\ cb' = [Started("new") EXCEPT !.err = "ConfigError"]
          /\ hist' = [hist EXCEPT !.options = options]
          /\ UNCHANGED <<gs, pc, loc>>
     ELSE /\ gs' = [mode |-> mode,
                    referenceBy |-> IF byId THEN REFERENCE_BY_ID ELSE REFERENCE_BY_FILENAME,
                    fileId |-> IF byId THEN CallerId ELSE NewObjectID,
                    filename |-> FileName,
                    options |-> options,
                    isOpen |-> FALSE, position |-> 0, length |-> -1,
                    writeConcern |-> FinalOptions(env.db, options),
                    internalChunkSize |->
                      IF options.chunkSize = 0 THEN DEFAULT_CHUNK_SIZE ELSE options.chunkSize,
                    uploadDate |-> NoDate,
                    contentType |-> "undefined", metadata |-> "undefined",
                    currentChunk |-> NoChunk]
          /\ pc' = "idle"
          /\ loc' = NoLoc
          /\ cb' = Started("new")
          /\ hist' = [Forget(hist, mode) EXCEPT !.options = options]
  /\ UNCHANGED <<stream, bulk, cursor, env, files, chunks, saves, nFail, nbytes>>

\* ------------------------------------------------------------------- open
\* the test open makes of the mode
KnownModeMutant(mode) == mode # "r"

KnownMode(mode) == mode \in {"w", "w+", "r"}

\* the test writeBuffer and close make: mode[0] == "w"
ForWritingMutant(mode) == mode \in {"w", "w+", "r"}

ForWriting(mode) == mode \in {"w", "w+"}

\* GridStore.prototype.open: an unknown mode is refused before any request;
\* a write mode first ensures the two indexes
Open ==
  /\ pc = "idle"
  /\ saves = {}
  /\ ~gs.isOpen
  /\ nOps < env.ops
  /\ nOps' = nOps + 1
  /\ loc' = NoLoc
  /\ hist' = Forget(hist, gs.mode)
  /\ IF ~KnownMode(gs.mode)
     THEN /\ cb' = Called(Started("open"), "IllegalMode", <<>>)
          /\ pc' = "idle"
     ELSE /\ cb' = Started("open")
          /\ pc' = IF gs.mode = "r" THEN "open_find" ELSE "open_index_files"
  /\ UNCHANGED <<stream, bulk, cursor, env, files, chunks, gs, saves, nFail, nbytes>>

\* collection.ensureIndex([['filename', 1]]): its error is not looked at
OpenEnsureIndexFiles ==
  /\ pc = "open_index_files"
  /\ \E ok \in Outcomes :
       nFail' = Failed(ok)
  /\ pc' = "open_index_chunks"
  /\ UNCHANGED <<stream, bulk, cursor, env, files, chunks, gs, loc, saves, cb, hist, nOps, nbytes>>

\* chunkCollection.ensureIndex([['files_id', 1], ['n', 1]]): likewise
OpenEnsureIndexChunks ==
  /\ pc = "open_index_chunks"
  /\ \E ok \in Outcomes :
       nFail' = Failed(ok)
  /\ pc' = "open_find"
  /\ UNCHANGED <<stream, bulk, cursor, env, files, chunks, gs, loc, saves, cb, hist, nOps, nbytes>>

\* the documents the query of _open matches
MatchesMutant(g) == {}

Matches(g) ==
  IF g.referenceBy = REFERENCE_BY_ID
  THEN {d \in files : d._id = g.fileId}
  ELSE {d \in files : d.filename = g.filename}

\* _open, a document was found: the handle takes over its fields
LoadDoc(g, doc) ==
  [g EXCEPT !.fileId = doc._id,
            !.filename = IF g.mode = "r" \/ g.filename = "undefined"
                         THEN doc.filename ELSE g.filename,
            !.contentType = doc.contentType,
            !.internalChunkSize = doc.chunkSize,
            !.uploadDate = doc.uploadDate,
            !.length = doc.length,
            !.metadata = doc.metadata]

\* _open, no document and a write mode
LoadNew(g) ==
  [g EXCEPT !.contentType = DEFAULT_CONTENT_TYPE, !.length = 0]

lastChunkNumberMutant(g) == g.length \div g.internalChunkSize

lastChunkNumber(g) ==
  (IF g.length # 0 THEN g.length - 1 ELSE 0) \div g.internalChunkSize

\* _open's test, no document was found: is that an error
MustExistMutant(g) == g.mode = "a"

MustExist(g) == g.mode = "r"

\* where _open goes after the lookup, in the handle's mode
AfterLookup(g) ==
  /\ gs' = g
  /\ pc' = IF g.mode = "w" THEN "open_delete" ELSE "open_nth"
  /\ loc' = [loc EXCEPT !.n = IF g.mode = "r" THEN 0 ELSE lastChunkNumber(g)]
  /\ cb' = cb

\* collection.find(query).nextObject of _open
OpenFind ==
  /\ pc = "open_find"
  /\ \E ok \in Outcomes :
       /\ nFail' = Failed(ok)
       /\ IF ~ok
          THEN /\ cb' = Called(cb, "db", <<>>)
               /\ pc' = "idle"
               /\ UNCHANGED <<gs, loc, hist>>
          ELSE IF Matches(gs) # {}
          THEN /\ \E doc \in Matches(gs) : AfterLookup(LoadDoc(gs, doc))
               /\ hist' = [hist EXCEPT !.found = TRUE]
          ELSE IF ~MustExist(gs)
          THEN /\ AfterLookup(LoadNew(gs))
               /\ hist' = hist
          ELSE /\ gs' = [gs EXCEPT !.length = 0]
               /\ cb' = Called(cb, "NotFound", <<>>)
               /\ pc' = "idle"
               /\ UNCHANGED <<loc, hist>>
  /\ UNCHANGED <<stream, bulk, cursor, env, files, chunks, saves, nOps, nbytes>>

\* nthChunk: the stored chunk n of the file, or new Chunk(self, {}) when
\* there is none, which is an empty chunk numbered 0
nthChunk(id, n) ==
  LET here == {d \in chunks : d.files_id = id /\ d.n = n}
  IN IF here = {} THEN ChunkNew(0) ELSE ChunkOfDoc(CHOOSE d \in here : TRUE)

\* what the session starts from, kept for stating the properties
Opened(g, cs) ==
  IF g.mode = "r" THEN hist
  ELSE [hist EXCEPT !.mode = g.mode, !.id = g.fileId, !.pure = TRUE,
                    !.written = <<>>, !.closed = FALSE,
                    !.old = FileBytes(cs, g.fileId), !.oldLen = g.length]

\* the handle after 'w+' has loaded its last chunk
OpenAppendMutant(g, chunk) ==
  [g EXCEPT !.currentChunk = chunk,
            !.metadata = IF g.options.metadata = "null" THEN @ ELSE g.options.metadata,
            !.position = g.length,
            !.isOpen = TRUE]

OpenAppend(g, chunk) ==
  [g EXCEPT !.currentChunk = [chunk EXCEPT !.position = ChunkLength(chunk)],
            !.metadata = IF g.options.metadata = "null" THEN @ ELSE g.options.metadata,
            !.position = g.length,
            !.isOpen = TRUE]

\* the handle after 'r' has loaded chunk 0
OpenRead(g, chunk) ==
  [g EXCEPT !.currentChunk = chunk, !.position = 0, !.isOpen = TRUE]

\* nthChunk of _open, modes 'r' and 'w+'
OpenNthChunk ==
  /\ pc = "open_nth"
  /\ \E ok \in Outcomes :
       /\ nFail' = Failed(ok)
       /\ IF ~ok
          THEN /\ cb' = Called(cb, "db", <<>>)
               /\ UNCHANGED <<gs, hist>>
          ELSE /\ gs' = IF gs.mode = "r"
                        THEN OpenRead(gs, nthChunk(gs.fileId, loc.n))
                        ELSE OpenAppend(gs, nthChunk(gs.fileId, loc.n))
               /\ cb' = Called(cb, "none", <<>>)
               /\ hist' = Opened(gs', chunks)
  /\ pc' = "idle"
  /\ loc' = NoLoc
  /\ UNCHANGED <<stream, bulk, cursor, env, files, chunks, saves, nOps, nbytes>>

\* deleteChunks: every chunk document of the file goes
deleteChunksMutant(cs, id) == {d \in cs : d.files_id # id \/ d.n = 0}

deleteChunks(cs, id) == {d \in cs : d.files_id # id}

\* the handle after 'w' has deleted the chunks
OpenTruncateMutant(g) ==
  [g EXCEPT !.currentChunk = ChunkNew(0),
            !.contentType = IF g.options.content_type = "null" THEN @ ELSE g.options.content_type,
            !.metadata = IF g.options.metadata = "null" THEN @ ELSE g.options.metadata,
            !.position = 0,
            !.isOpen = TRUE]

OpenTruncate(g) ==
  [g EXCEPT !.currentChunk = ChunkNew(0),
            !.contentType = IF g.options.content_type = "null" THEN @ ELSE g.options.content_type,
            !.internalChunkSize = IF g.options.chunk_size = 0 THEN @ ELSE g.options.chunk_size,
            !.metadata = IF g.options.metadata = "null" THEN @ ELSE g.options.metadata,
            !.position = 0,
            !.isOpen = TRUE]

\* deleteChunks of _open, mode 'w'
OpenDeleteChunks ==
  /\ pc = "open_delete"
  /\ \E ok \in Outcomes :
       /\ nFail' = Failed(ok)
       /\ IF ~ok
          THEN /\ cb' = Called(cb, "db", <<>>)
               /\ UNCHANGED <<gs, chunks, hist>>
          ELSE /\ chunks' = deleteChunks(chunks, gs.fileId)
               /\ gs' = OpenTruncate(gs)
               /\ cb' = Called(cb, "none", <<>>)
               /\ hist' = Opened(gs', chunks)
  /\ pc' = "idle"
  /\ loc' = NoLoc
  /\ UNCHANGED <<stream, bulk, cursor, env, files, saves, nOps, nbytes>>

\* ------------------------------------------------------------------ close
\* buildMongoObject: the metadata document, md5 being the command's answer
buildMongoObjectMutant(g, md5) ==
  [_id |-> g.fileId, filename |-> g.filename, contentType |-> g.contentType,
   length |-> g.length, chunkSize |-> g.internalChunkSize,
   uploadDate |-> g.uploadDate, metadata |-> g.metadata, md5 |-> md5]

buildMongoObject(g, md5) ==
  [_id |-> g.fileId, filename |-> g.filename, contentType |-> g.contentType,
   length |-> g.position, chunkSize |-> g.internalChunkSize,
   uploadDate |-> g.uploadDate, metadata |-> g.metadata, md5 |-> md5]

\* files.save(doc): upsert by _id
FilesSave(fs, doc) == {d \in fs : d._id # doc._id} \cup {doc}

\* close's test for a current chunk with buffered bytes
HasBufferedBytesMutant(g) == g.currentChunk # NoChunk /\ g.currentChunk.position >= 0

HasBufferedBytes(g) == g.currentChunk # NoChunk /\ g.currentChunk.position > 0

\* the part of close that runs in the caller's turn; now is what new Date()
\* gives, the number of the call
CloseEntry(g, c, now) ==
  IF ForWriting(g.mode)
  THEN IF HasBufferedBytes(g)
       THEN /\ gs' = g
            /\ pc' = "close_save"
            /\ cb' = c
       ELSE /\ gs' = [g EXCEPT !.uploadDate = now]
            /\ pc' = "close_md5"
            /\ cb' = c
  ELSE /\ gs' = g
       /\ pc' = "idle"
       /\ cb' = IF g.mode = "r" THEN Called(c, "none", <<>>)
                ELSE Called(c, "IllegalMode", <<>>)

\* GridStore.prototype.close
Close ==
  /\ pc = "idle"
  /\ saves = {}
  /\ nOps < env.ops
  /\ nOps' = nOps + 1
  /\ CloseEntry(gs, Started("close"), nOps')
  /\ loc' = NoLoc
  /\ hist' = [hist EXCEPT !.closed = @ /\ gs.mode = "r", !.lastSeek = -1]
  /\ UNCHANGED <<stream, bulk, cursor, env, files, chunks, saves, nFail, nbytes>>

\* where close goes once the current chunk is saved: a file that has an
\* upload date has its document removed first
CloseAfterSaveMutant(g) ==
  IF g.uploadDate # NoDate THEN "close_remove" ELSE "close_filesave"

CloseAfterSave(g) ==
  IF g.uploadDate # NoDate THEN "close_remove" ELSE "close_md5"

\* files.remove({_id: fileId})
RemoveFileMutant(fs, id) == fs

RemoveFile(fs, id) == {d \in fs : d._id # id}

\* currentChunk.save of close
CloseSaveChunk ==
  /\ pc = "close_save"
  /\ \E ok \in Outcomes :
       /\ nFail' = Failed(ok)
       /\ IF ~ok
          THEN /\ cb' = Called(cb, "db", <<>>)
               /\ pc' = "idle"
               /\ UNCHANGED <<gs, chunks>>
          ELSE /\ chunks' = ChunkSave(chunks, gs.fileId, gs.currentChunk)
               /\ cb' = cb
               /\ pc' = CloseAfterSave(gs)
               /\ gs' = IF gs.uploadDate # NoDate THEN gs
                        ELSE [gs EXCEPT !.uploadDate = nOps]
  /\ UNCHANGED <<stream, bulk, cursor, env, files, loc, saves, hist, nOps, nbytes>>

\* files.remove({_id: fileId}) of close, for a file that has an upload date
CloseRemove ==
  /\ pc = "close_remove"
  /\ \E ok \in Outcomes :
       /\ nFail' = Failed(ok)
       /\ IF ~ok
          THEN /\ cb' = Called(cb, "db", <<>>)
               /\ pc' = "idle"
               /\ files' = files
          ELSE /\ files' = RemoveFile(files, gs.fileId)
               /\ cb' = cb
               /\ pc' = "close_md5"
  /\ UNCHANGED <<stream, bulk, cursor, env, chunks, gs, loc, saves, hist, nOps, nbytes>>

\* db.command({filemd5: fileId, root: root}) of buildMongoObject
CloseMd5 ==
  /\ pc = "close_md5"
  /\ \E ok \in Outcomes :
       /\ nFail' = Failed(ok)
       /\ IF ~ok
          THEN /\ cb' = Called(cb, "db", <<>>)
               /\ pc' = "idle"
               /\ loc' = loc
          ELSE /\ loc' = [loc EXCEPT !.md5 = FileBytes(chunks, gs.fileId)]
               /\ cb' = cb
               /\ pc' = "close_filesave"
  /\ UNCHANGED <<stream, bulk, cursor, env, files, chunks, gs, saves, hist, nOps, nbytes>>

\* files.save(mongoObject) of close, and close's callback
CloseFileSave ==
  /\ pc = "close_filesave"
  /\ \E ok \in Outcomes :
       /\ nFail' = Failed(ok)
       /\ IF ~ok
          THEN /\ cb' = Called(cb, "db", <<>>)
               /\ UNCHANGED <<files, hist>>
          ELSE /\ files' = FilesSave(files, buildMongoObject(gs, loc.md5))
               /\ cb' = Called(cb, "none", <<>>)
               /\ hist' = [hist EXCEPT !.closed = gs.isOpen /\ gs.fileId = hist.id]
  /\ pc' = "idle"
  /\ loc' = NoLoc
  /\ UNCHANGED <<stream, bulk, cursor, env, chunks, gs, saves, nOps, nbytes>>

\* ------------------------------------------------------------------ write
RECURSIVE FullChunks(_, _, _)
\* the while loop of writeBuffer: one full chunk per chunkSize bytes of data
FullChunks(data, n, size) ==
  IF Len(data) >= size
  THEN <<ChunkWrite(ChunkNew(n), BufSlice(data, 0, size))>>
         \o FullChunks(BufSlice(data, size, Len(data)), n + 1, size)
  ELSE <<>>

\* writeBuffer, the buffer reaches the end of the current chunk: the chunk
\* filled up, the full chunks that follow, and the new current chunk
FirstChunk(g, buffer) ==
  ChunkWrite(g.currentChunk,
             BufSlice(buffer, 0, g.internalChunkSize - g.currentChunk.position))

LeftOverData(g, buffer) ==
  BufSlice(buffer, g.internalChunkSize - g.currentChunk.position, Len(buffer))

ChunksToWrite(g, buffer) ==
  <<FirstChunk(g, buffer)>>
    \o FullChunks(LeftOverData(g, buffer), g.currentChunk.chunkNumber + 1,
                  g.internalChunkSize)

NextChunkMutant(g, buffer) ==
  ChunkNew(g.currentChunk.chunkNumber + Len(ChunksToWrite(g, buffer)))

NextChunk(g, buffer) ==
  LET left == LeftOverData(g, buffer)
      rest == BufSlice(left, (Len(left) \div g.internalChunkSize) * g.internalChunkSize,
                       Len(left))
      c == ChunkNew(g.currentChunk.chunkNumber + Len(ChunksToWrite(g, buffer)))
  IN IF Len(rest) > 0 THEN ChunkWrite(c, rest) ELSE c

\* writeBuffer's test: does the buffer reach the end of the current chunk
OverflowsMutant(g, len) == g.currentChunk.position + len > g.internalChunkSize

Overflows(g, len) == g.currentChunk.position + len >= g.internalChunkSize

SeqRange(q) == {q[i] : i \in 1..Len(q)}

\* writeBuffer's advance of position, made before any save is answered
WriteAdvanceMutant(g, len) == g.position + Min(len, g.internalChunkSize - g.currentChunk.position)

WriteAdvance(g, len) == g.position + len

\* GridStore.prototype.write(data, close)
Write(len, close) ==
  /\ pc = "idle"
  /\ saves = {}
  /\ nOps < env.ops
  /\ nOps' = nOps + 1
  /\ IF ~ForWriting(gs.mode)
     THEN /\ cb' = Called(Started("write"), "NotWritable", <<>>)
          /\ loc' = NoLoc
          /\ UNCHANGED <<gs, pc, saves, hist, nbytes>>
     ELSE LET buffer == Fresh(nbytes, len) IN
          /\ gs.currentChunk # NoChunk
          /\ gs.position + len <= MaxPos
          /\ nbytes' = nbytes + len
          /\ hist' = [hist EXCEPT !.written = @ \o buffer, !.closed = FALSE,
                                  !.lastSeek = -1]
          /\ IF Overflows(gs, len)
             THEN /\ gs' = [gs EXCEPT !.currentChunk = NextChunk(gs, buffer),
                                      !.position = WriteAdvance(gs, len)]
                  /\ saves' = SeqRange(ChunksToWrite(gs, buffer))
                  /\ loc' = [NoLoc EXCEPT !.toWrite = Len(ChunksToWrite(gs, buffer)),
                                          !.finalClose = close]
                  /\ pc' = "write_saves"
                  /\ cb' = Started("write")
             ELSE /\ saves' = saves
                  /\ loc' = NoLoc
                  /\ LET g == [gs EXCEPT !.currentChunk = ChunkWrite(@, buffer),
                                         !.position = WriteAdvance(gs, len)]
                     IN IF close
                        THEN CloseEntry(g, Started("write"), nOps')
                        ELSE /\ gs' = g
                             /\ pc' = "idle"
                             /\ cb' = Called(Started("write"), "none", <<>>)
  /\ UNCHANGED <<stream, bulk, cursor, env, files, chunks, nFail>>

\* writeBuffer's counter of saves not yet acknowledged, after one more
\* acknowledgement: have all been acknowledged
AllSavedMutant(l) == l.toWrite - 1 <= 1

AllSaved(l) == l.toWrite - 1 <= 0

\* the answer to one of the chunk saves a write fanned out, in any order;
\* a failed save calls back at once and is not counted
WriteSave ==
  /\ saves # {}
  /\ \E s \in saves, ok \in Outcomes :
       /\ saves' = saves \ {s}
       /\ nFail' = Failed(ok)
       /\ IF ~ok
          THEN /\ cb' = Called(cb, "db", <<>>)
               /\ pc' = "idle"
               /\ UNCHANGED <<chunks, gs, loc>>
          ELSE /\ chunks' = ChunkSave(chunks, gs.fileId, s)
               /\ loc' = [loc EXCEPT !.toWrite = @ - 1]
               /\ IF AllSaved(loc)
                  THEN IF loc.finalClose
                       THEN CloseEntry(gs, cb, nOps)
                       ELSE /\ gs' = gs
                            /\ pc' = "idle"
                            /\ cb' = Called(cb, "none", <<>>)
                  ELSE UNCHANGED <<gs, pc, cb>>
  /\ UNCHANGED <<stream, bulk, cursor, env, files, hist, nOps, nbytes>>

\* ------------------------------------------------------------------- read
\* slice.copy(finalBuffer, index)
Copy(buf, slice, index) ==
  [i \in 1..Len(buf) |->
     IF i > index /\ i <= index + Len(slice) THEN slice[i - index] ELSE buf[i]]

FinalLength(g, len) == IF len = -1 THEN g.length - g.position ELSE len

\* read's advance of position when it calls back with the buffer
ReadAdvanceMutant(g, l) == g.position + Len(l.buf) - l.index

ReadAdvance(g, l) == g.position + Len(l.buf)

\* one turn of GridStore.prototype.read on the handle g with locals l: the
\* current chunk either holds the rest of what was asked for, or is read
\* to its end and the next chunk is asked for
ReadTurn(g, l, c, h) ==
  LET cur == g.currentChunk
      finalLength == FinalLength(g, l.len)
  IN IF ChunkLength(cur) - cur.position + l.index >= finalLength
     THEN LET n == finalLength - l.index IN
          /\ gs' = [g EXCEPT !.currentChunk = SliceChunk(cur, n),
                             !.position = ReadAdvance(g, l)]
          /\ cb' = IF finalLength = 0 /\ Len(l.buf) = 0
                   THEN Called(c, "FileDoesNotExist", <<>>)
                   ELSE Called(c, "none", Copy(l.buf, Slice(cur, n), l.index))
          /\ pc' = "idle"
          /\ loc' = NoLoc
          /\ hist' = IF l.start = 0 /\ l.len = -1
                     THEN [h EXCEPT !.fullErr = cb'.err, !.full = cb'.data]
                     ELSE h
     ELSE LET n == ChunkLength(cur) - cur.position IN
          /\ gs' = [g EXCEPT !.currentChunk = SliceChunk(cur, n)]
          /\ loc' = [l EXCEPT !.buf = Copy(l.buf, Slice(cur, n), l.index),
                              !.index = @ + SliceLen(cur, n),
                              !.n = cur.chunkNumber + 1]
          /\ pc' = "read_nth"
          /\ cb' = c
          /\ hist' = h

\* GridStore.prototype.read(length): length -1 stands for no length given.
\* new Buffer(finalLength) is not initialised, and throws on a negative size
Read(len) ==
  /\ pc = "idle"
  /\ saves = {}
  /\ nOps < env.ops
  /\ gs.currentChunk # NoChunk
  /\ nOps' = nOps + 1
  /\ IF FinalLength(gs, len) < 0
     THEN /\ cb' = [Started("read") EXCEPT !.err = "thrown"]
          /\ loc' = NoLoc
          /\ UNCHANGED <<gs, pc, hist>>
     ELSE \E u \in UninitBytes :
            ReadTurn(gs,
                     [NoLoc EXCEPT !.len = len,
                                   !.buf = [i \in 1..FinalLength(gs, len) |-> u],
                                   !.start = IF cb.op = "open" THEN 0 ELSE -1],
                     Started("read"),
                     [hist EXCEPT !.pure = @ /\ gs.mode = "r",
                                  !.closed = @ /\ gs.mode = "r",
                                  !.readLen = len,
                                  !.lastSeek = IF cb.op = "seek" /\ cb.n = 1 /\ cb.err = "none"
                                               THEN @ ELSE -1])
  /\ UNCHANGED <<stream, bulk, cursor, env, files, chunks, saves, nFail, nbytes>>

\* nthChunk of read: a chunk with data is read on, an empty one ends the read
ReadNthChunk ==
  /\ pc = "read_nth"
  /\ \E ok \in Outcomes :
       /\ nFail' = Failed(ok)
       /\ IF ~ok
          THEN /\ cb' = Called(cb, "db", <<>>)
               /\ pc' = "idle"
               /\ loc' = NoLoc
               /\ gs' = gs
               /\ hist' = IF loc.start = 0 /\ loc.len = -1
                          THEN [hist EXCEPT !.fullErr = "db"] ELSE hist
          ELSE LET chunk == nthChunk(gs.fileId, loc.n) IN
               IF ChunkLength(chunk) > 0
               THEN ReadTurn([gs EXCEPT !.currentChunk = chunk], loc, cb, hist)
               ELSE /\ cb' = IF loc.index > 0 THEN Called(cb, "none", loc.buf)
                             ELSE Called(cb, "Corrupt", <<>>)
                    /\ pc' = "idle"
                    /\ loc' = NoLoc
                    /\ gs' = gs
                    /\ hist' = IF loc.start = 0 /\ loc.len = -1
                               THEN [hist EXCEPT !.fullErr = cb'.err, !.full = cb'.data]
                               ELSE hist
  /\ UNCHANGED <<stream, bulk, cursor, env, files, chunks, saves, nOps, nbytes>>

\* ------------------------------------------------------------------- seek
TargetPosition(g, position, seekLocation) ==
  IF seekLocation = IO_SEEK_CUR THEN g.position + position
  ELSE IF seekLocation = IO_SEEK_END THEN g.length + position
  ELSE position

\* the handle once seek has its chunk
SeekedMutant(g, chunk, target) ==
  [g EXCEPT !.currentChunk = chunk, !.position = target]

Seeked(g, chunk, target) ==
  [g EXCEPT !.currentChunk = [chunk EXCEPT !.position = target % g.internalChunkSize],
            !.position = target]

\* GridStore.prototype.seek(position, seekLocation)
Seek(position, seekLocation) ==
  /\ pc = "idle"
  /\ saves = {}
  /\ nOps < env.ops
  /\ gs.currentChunk # NoChunk
  /\ TargetPosition(gs, position, seekLocation) \in 0..MaxPos
  /\ nOps' = nOps + 1
  /\ hist' = [hist EXCEPT !.pure = @ /\ gs.mode = "r",
                          !.closed = @ /\ gs.mode = "r",
                          !.lastSeek = TargetPosition(gs, position, seekLocation)]
  /\ LET target == TargetPosition(gs, position, seekLocation)
         newChunkNumber == target \div gs.internalChunkSize
     IN IF newChunkNumber # gs.currentChunk.chunkNumber
        THEN /\ loc' = [NoLoc EXCEPT !.target = target, !.n = newChunkNumber]
             /\ pc' = IF ForWriting(gs.mode) THEN "seek_save" ELSE "seek_nth"
             /\ cb' = Started("seek")
             /\ gs' = gs
        ELSE /\ gs' = Seeked(gs, gs.currentChunk, target)
             /\ cb' = Called(Started("seek"), "none", <<>>)
             /\ pc' = "idle"
             /\ loc' = NoLoc
  /\ UNCHANGED <<stream, bulk, cursor, env, files, chunks, saves, nFail, nbytes>>

\* currentChunk.save of seek, in a write mode
SeekSave ==
  /\ pc = "seek_save"
  /\ \E ok \in Outcomes :
       /\ nFail' = Failed(ok)
       /\ IF ~ok
          THEN /\ cb' = Called(cb, "db", <<>>)
               /\ pc' = "idle"
               /\ loc' = NoLoc
               /\ chunks' = chunks
          ELSE /\ chunks' = ChunkSave(chunks, gs.fileId, gs.currentChunk)
               /\ pc' = "seek_nth"
               /\ UNCHANGED <<cb, loc>>
  /\ UNCHANGED <<stream, bulk, cursor, env, files, gs, saves, hist, nOps, nbytes>>

\* nthChunk of seek; on an error the chunk is undefined and setting its
\* position throws before the callback is reached
SeekNthChunk ==
  /\ pc = "seek_nth"
  /\ \E ok \in Outcomes :
       /\ nFail' = Failed(ok)
       /\ IF ~ok
          THEN /\ gs' = [gs EXCEPT !.currentChunk = NoChunk, !.position = loc.target]
               /\ cb' = [cb EXCEPT !.err = "thrown"]
          ELSE /\ gs' = Seeked(gs, nthChunk(gs.fileId, loc.n), loc.target)
               /\ cb' = Called(cb, "none", <<>>)
  /\ pc' = "idle"
  /\ loc' = NoLoc
  /\ UNCHANGED <<stream, bulk, cursor, env, files, chunks, saves, hist, nOps, nbytes>>

\* ----------------------------------------------------------------- rewind
\* chunk.rewind(): the cursor goes back to 0
ChunkRewind(c) == [c EXCEPT !.position = 0]

\* GridStore.prototype.rewind: away from chunk 0 a write mode deletes the
\* chunks; a read mode calls self.currentChunk, which is no function, and
\* throws
Rewind ==
  /\ pc = "idle"
  /\ saves = {}
  /\ nOps < env.ops
  /\ gs.currentChunk # NoChunk
  /\ nOps' = nOps + 1
  /\ loc' = NoLoc
  /\ hist' = [hist EXCEPT !.pure = @ /\ gs.mode = "r",
                          !.closed = @ /\ gs.mode = "r",
                          !.lastSeek = -1]
  /\ IF gs.currentChunk.chunkNumber # 0
     THEN IF ForWriting(gs.mode)
          THEN /\ pc' = "rewind_delete"
               /\ cb' = Started("rewind")
               /\ gs' = gs
          ELSE /\ pc' = "idle"
               /\ cb' = [Started("rewind") EXCEPT !.err = "thrown"]
               /\ gs' = gs
     ELSE /\ pc' = "idle"
          /\ cb' = Called(Started("rewind"), "none", <<>>)
          /\ gs' = [gs EXCEPT !.currentChunk = ChunkRewind(@), !.position = 0]
  /\ UNCHANGED <<stream, bulk, cursor, env, files, chunks, saves, nFail, nbytes>>

\* deleteChunks of rewind
RewindDeleteChunks ==
  /\ pc = "rewind_delete"
  /\ \E ok \in Outcomes :
       /\ nFail' = Failed(ok)
       /\ IF ~ok
          THEN /\ cb' = Called(cb, "db", <<>>)
               /\ UNCHANGED <<gs, chunks>>
          ELSE /\ chunks' = deleteChunks(chunks, gs.fileId)
               /\ gs' = [gs EXCEPT !.currentChunk = ChunkNew(0), !.position = 0]
               /\ cb' = Called(cb, "none", <<>>)
  /\ pc' = "idle"
  /\ UNCHANGED <<stream, bulk, cursor, env, files, loc, saves, hist, nOps, nbytes>>

\* ----------------------------------------------------------------- unlink
\* GridStore.prototype.unlink: deleteChunks is asked first
Unlink ==
  /\ pc = "idle"
  /\ saves = {}
  /\ nOps < env.ops
  /\ nOps' = nOps + 1
  /\ loc' = NoLoc
  /\ hist' = [hist EXCEPT !.pure = FALSE, !.closed = FALSE, !.lastSeek = -1]
  /\ pc' = "unlink_chunks"
  /\ cb' = Started("unlink")
  /\ UNCHANGED <<stream, bulk, cursor, env, files, chunks, gs, saves, nFail, nbytes>>

\* deleteChunks of unlink: on an error the callback is called at once
UnlinkDeleteChunks ==
  /\ pc = "unlink_chunks"
  /\ \E ok \in Outcomes :
       /\ nFail' = Failed(ok)
       /\ IF ~ok
          THEN /\ cb' = Called(cb, "db", <<>>)
               /\ pc' = "idle"
               /\ chunks' = chunks
          ELSE /\ chunks' = deleteChunks(chunks, gs.fileId)
               /\ cb' = cb
               /\ pc' = "unlink_remove"
  /\ UNCHANGED <<stream, bulk, cursor, env, files, gs, loc, saves, hist, nOps, nbytes>>

\* collection.remove({_id: fileId}) of unlink, and unlink's callback
UnlinkRemove ==
  /\ pc = "unlink_remove"
  /\ \E ok \in Outcomes :
       /\ nFail' = Failed(ok)
       /\ IF ~ok
          THEN /\ cb' = Called(cb, "db", <<>>)
               /\ files' = files
          ELSE /\ files' = RemoveFile(files, gs.fileId)
               /\ cb' = Called(cb, "none", <<>>)
  /\ pc' = "idle"
  /\ UNCHANGED <<stream, bulk, cursor, env, chunks, gs, loc, saves, hist, nOps, nbytes>>

\* ---------------------------------------------------------- static unlink
\* the names the caller hands to GridStore.unlink: of the stored file and of
\* no file
Names == {FileName, "g"}
NameLists == UNION {[1..n -> Names] : n \in 0..MaxNames}

\* the ObjectID of the handle the k-th unlink makes
FreshId(k) == CallerId + Cardinality(DbIds) + k

\* new GridStore(db, name, "w", options).open(...) of one unlink: the part
\* of the handle the unlink looks at, and the round trip it waits for
UnlinkOf(name, k) ==
  [pc |-> "open_index_files", referenceBy |-> REFERENCE_BY_FILENAME,
   filename |-> name, fileId |-> FreshId(k), err |-> "pending"]

Pending(b) == {i \in 1..Len(b.items) : b.items[i].pc # "done"}

\* GridStore.unlink(db, names, options, callback) with an array of names, or
\* with one name: the array starts one unlink per name and counts them
StaticUnlink(names, isArray) ==
  /\ Pending(bulk) = {}
  /\ nOps < env.ops
  /\ isArray \/ Len(names) = 1
  /\ nOps' = nOps + 1
  /\ bulk' = [names |-> names, isArray |-> isArray, tc |-> IF isArray THEN Len(names) ELSE 0,
              items |-> [i \in 1..Len(names) |-> UnlinkOf(names[i], i)],
              called |-> 0, err |-> "none", started |-> TRUE]
  /\ UNCHANGED <<stream, cursor, env, files, chunks, gs, pc, loc, saves, cb, hist, nFail, nbytes>>

\* what the callback of the array call is given when an unlink has answered
\* with err: callback(null, self)
BulkResultMutant(err) == err

BulkResult(err) == "none"

\* the callback of one unlink is called with err: the unlink of one name
\* hands err to the caller; in an array it is counted, and the one that
\* brings the counter to 0 calls the caller
Answer(b, i, err) ==
  LET b1 == [b EXCEPT !.items[i].pc = "done", !.items[i].err = err] IN
  IF ~b.isArray
  THEN [b1 EXCEPT !.called = @ + 1, !.err = err]
  ELSE IF b.tc - 1 = 0
  THEN [b1 EXCEPT !.tc = @ - 1, !.called = @ + 1, !.err = BulkResult(err)]
  ELSE [b1 EXCEPT !.tc = @ - 1]

\* the round trip of unlink i is answered, for the steps that leave the
\* database as it is
Waits(i, at) == i \in 1..Len(bulk.items) /\ bulk.items[i].pc = at

\* open of one unlink: collection.ensureIndex([['filename', 1]])
BulkEnsureIndexFiles ==
  \E i \in 1..Len(bulk.items), ok \in Outcomes :
    /\ Waits(i, "open_index_files")
    /\ nFail' = Failed(ok)
    /\ bulk' = [bulk EXCEPT !.items[i].pc = "open_index_chunks"]
    /\ UNCHANGED <<stream, cursor, env, files, chunks, gs, pc, loc, saves, cb, hist, nOps, nbytes>>

\* open of one unlink: chunkCollection.ensureIndex([['files_id', 1], ['n', 1]])
BulkEnsureIndexChunks ==
  \E i \in 1..Len(bulk.items), ok \in Outcomes :
    /\ Waits(i, "open_index_chunks")
    /\ nFail' = Failed(ok)
    /\ bulk' = [bulk EXCEPT !.items[i].pc = "open_find"]
    /\ UNCHANGED <<stream, cursor, env, files, chunks, gs, pc, loc, saves, cb, hist, nOps, nbytes>>

\* _open of one unlink: the lookup by file name; a document found gives the
\* handle its id, none leaves it the new ObjectID
BulkFind ==
  \E i \in 1..Len(bulk.items), ok \in Outcomes :
    /\ Waits(i, "open_find")
    /\ nFail' = Failed(ok)
    /\ IF ~ok
       THEN bulk' = Answer(bulk, i, "db")
       ELSE IF Matches(bulk.items[i]) # {}
       THEN \E doc \in Matches(bulk.items[i]) :
              bulk' = [bulk EXCEPT !.items[i].fileId = doc._id,
                                   !.items[i].pc = "open_delete"]
       ELSE bulk' = [bulk EXCEPT !.items[i].pc = "open_delete"]
    /\ UNCHANGED <<stream, cursor, env, files, chunks, gs, pc, loc, saves, cb, hist, nOps, nbytes>>

\* _open of one unlink in mode "w": deleteChunks, then open's callback
BulkOpenDeleteChunks ==
  \E i \in 1..Len(bulk.items), ok \in Outcomes :
    /\ Waits(i, "open_delete")
    /\ nFail' = Failed(ok)
    /\ IF ~ok
       THEN /\ bulk' = Answer(bulk, i, "db")
            /\ chunks' = chunks
       ELSE /\ chunks' = deleteChunks(chunks, bulk.items[i].fileId)
            /\ bulk' = [bulk EXCEPT !.items[i].pc = "unlink_chunks"]
    /\ UNCHANGED <<stream, cursor, env, files, gs, pc, loc, saves, cb, hist, nOps, nbytes>>

\* deleteChunks(gridStore, ...) of one unlink
BulkDeleteChunks ==
  \E i \in 1..Len(bulk.items), ok \in Outcomes :
    /\ Waits(i, "unlink_chunks")
    /\ nFail' = Failed(ok)
    /\ IF ~ok
       THEN /\ bulk' = Answer(bulk, i, "db")
            /\ chunks' = chunks
       ELSE /\ chunks' = deleteChunks(chunks, bulk.items[i].fileId)
            /\ bulk' = [bulk EXCEPT !.items[i].pc = "unlink_remove"]
    /\ UNCHANGED <<stream, cursor, env, files, gs, pc, loc, saves, cb, hist, nOps, nbytes>>

\* collection.remove({_id: gridStore.fileId}) of one unlink, and its callback
BulkRemove ==
  \E i \in 1..Len(bulk.items), ok \in Outcomes :
    /\ Waits(i, "unlink_remove")
    /\ nFail' = Failed(ok)
    /\ IF ~ok
       THEN /\ bulk' = Answer(bulk, i, "db")
            /\ files' = files
       ELSE /\ files' = RemoveFile(files, bulk.items[i].fileId)
            /\ bulk' = Answer(bulk, i, "none")
    /\ UNCHANGED <<stream, cursor, env, chunks, gs, pc, loc, saves, cb, hist, nOps, nbytes>>

\* -------------------------------------------------------------- chunkSize
\* the test the chunkSize setter makes before it takes the value
MayResizeMutant(g) == ForWriting(g.mode) /\ g.uploadDate = NoDate

MayResize(g) == ForWriting(g.mode) /\ g.position = 0 /\ g.uploadDate = NoDate

\* gridStore.chunkSize = value: the setter has no callback and never throws
SetChunkSize(value) ==
  /\ pc = "idle"
  /\ saves = {}
  /\ nOps < env.ops
  /\ nOps' = nOps + 1
  /\ gs' = IF MayResize(gs) THEN [gs EXCEPT !.internalChunkSize = value] ELSE gs
  /\ cb' = Started("chunkSize")
  /\ loc' = [NoLoc EXCEPT !.value = value]
  /\ UNCHANGED <<stream, bulk, cursor, env, files, chunks, pc, saves, hist, nFail, nbytes>>

\* ------------------------------------------------------------------ Cursor
\* The core cursor (mongodb-core) is not part of the sources at hand.  Its
\* operators follow the specification's section 4.3: a fetch primitive that
\* hands out a buffered document without a round trip and otherwise asks the
\* server for the next batch; a dead condition reached by exhaustion, by a
\* lost connection or by kill.

gridvars == <<env, files, chunks, gs, pc, loc, saves, cb, hist, nOps, nFail,
              nbytes, bulk, stream>>

bufferedCount(c) == Len(c.buffer)
isDead(c) == c.dead
kill(c) == [c EXCEPT !.dead = TRUE, !.killed = TRUE, !.buffer = <<>>]

\* what a fetch may be answered with, and the core cursor after it: an error
\* of the database; for a tailable cursor the tailable-retry error while the
\* result set has nothing to give; the end of the result set (null, and the
\* cursor is dead); a batch of documents, the first handed to the callback
\* and the others buffered.  A killed cursor may also give null: a fetch
\* that was in flight when it was killed may still bring its batch.
Replies(c) ==
  {[err |-> "db", doc |-> 0, c |-> [c EXCEPT !.failed = @ + 1]] :
     x \in IF c.failed < MaxFail THEN {0} ELSE {}}
  \cup
  {[err |-> "none", doc |-> 0, c |-> c] : x \in IF c.killed THEN {0} ELSE {}}
  \cup
  IF c.options.tailable /\ (c.transient > 0 \/ c.rest = <<>>)
    THEN {[err |-> "tailable", doc |-> 0,
           c |-> [c EXCEPT !.transient = Max(0, @ - 1)]]}
  ELSE IF c.rest = <<>>
    THEN {[err |-> "none", doc |-> 0, c |-> [c EXCEPT !.dead = TRUE]]}
  ELSE {[err |-> "none", doc |-> Head(c.rest),
         c |-> [c EXCEPT !.buffer = SubSeq(c.rest, 2, k),
                         !.rest = SubSeq(c.rest, k + 1, Len(c.rest))]] :
          k \in 1..Min(MaxBatch, Len(c.rest))}

\* the fetch primitive is called with nothing buffered: a round trip
Fetch(c, at) == [c EXCEPT !.pc = at, !.fetches = @ + 1]

\* callback(err) and callback(null, doc)
Gives(r, err, doc) ==
  [r EXCEPT !.n = @ + 1, !.err = err, !.doc = doc,
            !.kind = IF err # "none" THEN @ ELSE IF doc = 0 THEN "null" ELSE "doc",
            !.items = IF err = "none" /\ doc # 0 THEN Append(@, doc) ELSE @]

\* the callback is called once for each of docs
RECURSIVE GivesAll(_, _)
GivesAll(r, docs) ==
  IF docs = <<>> THEN r ELSE GivesAll(Gives(r, "none", Head(docs)), Tail(docs))

\* a call of the caller begins
Begin(c, op) ==
  [c EXCEPT !.ops = @ + 1, !.cb = [NoResult EXCEPT !.op = op], !.retried = 0]

MayCall == cursor.ops + cursor.emitted + cursor.shape.n < OpsCursor
CursorIdle == cursor.pc = "idle" /\ MayCall

\* state == Cursor.CLOSED || self.isDead()
IsClosedMutant(c) == c.state = CLOSED
IsClosed(c) == c.state = CLOSED \/ isDead(c)

\* the callback nextObject hands to self.next
NextObjectDone(c, err, doc) ==
  IF err = "tailable" /\ c.currentNumberOfRetries = 0
    THEN [c EXCEPT !.pc = "idle", !.cb = Gives(@, err, 0)]
  ELSE IF err = "tailable"
    THEN [c EXCEPT !.currentNumberOfRetries = @ - 1, !.pc = "retry"]
  ELSE [c EXCEPT !.state = OPEN, !.pc = "idle", !.cb = Gives(@, err, doc),
                 !.got = IF err = "none" /\ doc # 0 THEN Append(@, doc) ELSE @]

\* nextObject(callback): the cursor after the call has run up to its
\* callback or up to the round trip it waits for
nextObject(c) ==
  IF IsClosed(c)
    THEN [c EXCEPT !.pc = "idle", !.cb = Gives(@, "Closed", 0)]
  ELSE IF c.state = INIT /\ c.cmd.orderby = "invalid"
    THEN [c EXCEPT !.pc = "idle", !.cb = Gives(@, "sort", 0)]
  ELSE LET d == IF c.state = INIT /\ c.cmd.orderby # "null"
                  THEN [c EXCEPT !.cmd.orderby = "formatted"] ELSE c
       IN  IF bufferedCount(d) > 0
             THEN NextObjectDone([d EXCEPT !.buffer = Tail(@)], "none",
                                 Head(d.buffer))
             ELSE Fetch(d, "nextObject")

\* close(): state = Cursor.CLOSED; this.kill(); this.emit('close')
ClosedMutant(c) == [kill(c) EXCEPT !.emitted = @ + 1]
Closed(c) == [kill(c) EXCEPT !.state = CLOSED, !.emitted = @ + 1]

\* the callback _read hands to nextObject: on an error self.destroy(), which
\* closes the cursor, and push(null); otherwise push(result)
Pushed(c) ==
  IF c.cb.op = "_read" /\ c.pc = "idle" /\ c.cb.err # "none"
    THEN Closed(c) ELSE c

\* _read(n): push(null) on a closed or dead cursor, otherwise nextObject
read(c) ==
  IF IsClosed(c)
    THEN [c EXCEPT !.pc = "idle", !.cb = Gives(@, "none", 0)]
    ELSE Pushed(nextObject(c))

NextObject ==
  /\ CursorIdle
  /\ cursor' = nextObject(Begin(cursor, "nextObject"))
  /\ UNCHANGED gridvars

\* the stream asks for the next document
StreamRead ==
  /\ CursorIdle
  /\ cursor' = read(Begin(cursor, "_read"))
  /\ UNCHANGED gridvars

NextObjectReply ==
  /\ cursor.pc = "nextObject"
  /\ \E r \in Replies(cursor) :
       cursor' = Pushed(NextObjectDone(r.c, r.err, r.doc))
  /\ UNCHANGED gridvars

\* tailableRetryInterval has passed: self.nextObject(options, callback)
RetryTimer ==
  /\ cursor.pc = "retry"
  /\ cursor' = Pushed(nextObject([cursor EXCEPT !.retried = @ + 1,
                                                !.timers = @ + 1]))
  /\ UNCHANGED gridvars

\* while(fn = loop(self, callback)) fn(self, callback): every buffered
\* document is handed to the callback
DrainedMutant(c) == c
Drained(c) ==
  [c EXCEPT !.cb = GivesAll(@, c.buffer), !.got = @ \o c.buffer,
            !.buffer = <<>>]

\* each(callback): the buffered documents are handed out, then a fetch
each(c) ==
  IF IsClosed(c)
    THEN [c EXCEPT !.pc = "idle", !.cb = Gives(@, "Closed", 0)]
    ELSE Fetch(Drained(c), "each")

Each ==
  /\ CursorIdle
  /\ cursor' = each(Begin(cursor, "each"))
  /\ UNCHANGED gridvars

EachReply ==
  /\ cursor.pc = "each"
  /\ \E r \in Replies(cursor) :
       cursor' =
         IF r.err # "none" \/ r.doc = 0
           THEN [r.c EXCEPT !.pc = "idle", !.cb = Gives(@, r.err, 0)]
           ELSE each([r.c EXCEPT !.cb = Gives(@, "none", r.doc),
                                 !.got = Append(@, r.doc)])
  /\ UNCHANGED gridvars

\* options.tailable
UnboundedMutant(c) == FALSE
Unbounded(c) == c.options.tailable

\* items.push(doc); items = items.concat(readBufferedDocuments(bufferedCount()))
AccumulateMutant(items, doc, buffered) == (items \o buffered) \o <<doc>>
Accumulate(items, doc, buffered) == (items \o <<doc>>) \o buffered

\* the callback toArray hands to self.next is given a document
ToArrayGot(c, doc) ==
  Fetch([c EXCEPT !.items = Accumulate(@, doc, c.buffer), !.buffer = <<>>],
        "toArray")

fetchDocs(c) ==
  IF bufferedCount(c) > 0
    THEN ToArrayGot([c EXCEPT !.buffer = Tail(@)], Head(c.buffer))
    ELSE Fetch(c, "toArray")

\* the result set is exhausted: state = Cursor.CLOSED; callback(null, items)
ExhaustedMutant(c) ==
  [c EXCEPT !.pc = "idle", !.arrayed = TRUE,
            !.cb = [@ EXCEPT !.n = @ + 1, !.kind = "array", !.items = c.items]]
Exhausted(c) ==
  [c EXCEPT !.state = CLOSED, !.pc = "idle", !.arrayed = TRUE,
            !.cb = [@ EXCEPT !.n = @ + 1, !.kind = "array", !.items = c.items]]

toArray(c) ==
  IF Unbounded(c)
    THEN [c EXCEPT !.pc = "idle", !.cb = Gives(@, "Unsupported", 0)]
  ELSE IF IsClosed(c)
    THEN [c EXCEPT !.pc = "idle", !.cb = Gives(@, "Closed", 0)]
  ELSE fetchDocs([c EXCEPT !.items = <<>>])

ToArray ==
  /\ CursorIdle
  /\ cursor' = toArray(Begin(cursor, "toArray"))
  /\ UNCHANGED gridvars

ToArrayReply ==
  /\ cursor.pc = "toArray"
  /\ \E r \in Replies(cursor) :
       cursor' =
         IF r.err # "none"
           THEN [r.c EXCEPT !.pc = "idle", !.cb = Gives(@, r.err, 0),
                            !.dropped = @ \o r.c.items]
         ELSE IF r.doc = 0 THEN Exhausted(r.c)
         ELSE ToArrayGot(r.c, r.doc)
  /\ UNCHANGED gridvars

\* count(callback): a cursor not built from a find has its callback called
\* with an error, and the command is sent all the same
Count ==
  /\ CursorIdle
  /\ LET c == Begin(cursor, "count")
     IN  cursor' = [c EXCEPT !.pc = "count",
                             !.cb = IF c.cmd.query THEN @
                                    ELSE Gives(@, "NotFind", 0)]
  /\ UNCHANGED gridvars

\* the reply to the count command: result.documents[0].n
CountReply ==
  /\ cursor.pc = "count"
  /\ \/ /\ cursor.failed < MaxFail
        /\ cursor' = [cursor EXCEPT !.pc = "idle", !.failed = @ + 1,
                                    !.cb = Gives(@, "db", 0)]
     \/ cursor' = [cursor EXCEPT !.pc = "idle",
                     !.cb = [@ EXCEPT !.n = @ + 1, !.err = "none",
                                      !.kind = "count", !.doc = Len(cursor.all)]]
  /\ UNCHANGED gridvars

\* close is called, whatever the cursor waits for
CursorClose ==
  /\ MayCall
  /\ cursor' = Closed(cursor)
  /\ UNCHANGED gridvars

\* limit, skip, batchSize or sort throws, or returns the cursor
Thrown(c, op, value, err) ==
  [c EXCEPT !.shape = [op |-> op, value |-> value, err |-> err, n |-> @.n + 1]]
Returned(c, op, value) == Thrown(c, op, value, "none")

\* limit(value)
limit(c, value) ==
  IF c.options.tailable THEN Thrown(c, "limit", value, "tailable")
  ELSE IF c.state = OPEN \/ c.state = CLOSED \/ isDead(c)
    THEN Thrown(c, "limit", value, "closed")
  ELSE IF value = NotNumber THEN Thrown(c, "limit", value, "type")
  ELSE [Returned(c, "limit", value) EXCEPT !.cmd.limit = value]

\* skip(value)
skip(c, value) ==
  IF c.options.tailable THEN Thrown(c, "skip", value, "tailable")
  ELSE IF c.state = OPEN \/ c.state = CLOSED \/ isDead(c)
    THEN Thrown(c, "skip", value, "closed")
  ELSE IF value = NotNumber THEN Thrown(c, "skip", value, "type")
  ELSE [Returned(c, "skip", value) EXCEPT !.cmd.skip = value]

\* batchSize(value)
batchSize(c, value) ==
  IF c.options.tailable THEN Thrown(c, "batchSize", value, "tailable")
  ELSE IF c.state = CLOSED \/ isDead(c)
    THEN Thrown(c, "batchSize", value, "closed")
  ELSE IF value = NotNumber THEN Thrown(c, "batchSize", value, "type")
  ELSE [Returned(c, "batchSize", value) EXCEPT !.cmd.batchSize = value]

\* sort(keyOrList, direction): the order is stored as given; value 1 is a
\* well-formed order and NotNumber one that formattedOrderClause rejects
sort(c, value) ==
  IF c.options.tailable THEN Thrown(c, "sort", value, "tailable")
  ELSE IF c.state = CLOSED \/ c.state = OPEN \/ isDead(c)
    THEN Thrown(c, "sort", value, "closed")
  ELSE [Returned(c, "sort", value) EXCEPT
          !.cmd.orderby = IF value = NotNumber THEN "invalid" ELSE "list"]

\* the calls that change the shape of the query are made at any moment
Limit ==
  /\ MayCall
  /\ \E value \in {NotNumber, 1} : cursor' = limit(cursor, value)
  /\ UNCHANGED gridvars

Skip ==
  /\ MayCall
  /\ \E value \in {NotNumber, 1} : cursor' = skip(cursor, value)
  /\ UNCHANGED gridvars

BatchSize ==
  /\ MayCall
  /\ \E value \in {NotNumber, 1} : cursor' = batchSize(cursor, value)
  /\ UNCHANGED gridvars

Sort ==
  /\ MayCall
  /\ \E value \in {NotNumber, 1} : cursor' = sort(cursor, value)
  /\ UNCHANGED gridvars

\* the connection is lost while no round trip is in flight
ConnectionLost ==
  /\ cursor.pc \in {"idle", "retry"}
  /\ ~cursor.dead
  /\ cursor.ops > 0
  /\ cursor' = [cursor EXCEPT !.dead = TRUE]
  /\ UNCHANGED gridvars

\* ------------------------------------------------ the stream's calls
Task(op, at, cont) ==
  [op |-> op, pc |-> at, cont |-> cont, callback |-> FALSE, data |-> <<>>,
   saves |-> {}, toWrite |-> 0, doc |-> NoDoc, len |-> 0, buf |-> <<>>,
   index |-> 0, n |-> 0]

\* the handle, the two collections and the stream, as one step changes them
World == [gs |-> gs, files |-> files, chunks |-> chunks, s |-> stream]

Becomes(w) ==
  /\ gs' = w.gs
  /\ files' = w.files
  /\ chunks' = w.chunks
  /\ stream' = w.s

Spawn(w, t) == [w EXCEPT !.s.tasks = Append(@, t)]

\* task i has called back and is over
Over(w, i) ==
  [w EXCEPT !.s.tasks = SubSeq(@, 1, i - 1) \o SubSeq(@, i + 1, Len(@))]

Waiting(at) == {i \in 1..Len(stream.tasks) : stream.tasks[i].pc = at}

\* self.emit('drain'), self.emit('error', err)
EmitDrain(w) == [w EXCEPT !.s.drains = @ + 1]
EmitError(w) == [w EXCEPT !.s.errors = @ + 1]

\* the callback end hands to gs.close: end's own callback if it is a
\* function, then self.emit('end')
EmitEnd(w, hasCallback) ==
  [w EXCEPT !.s.ends = @ + 1,
            !.s.callbacks = IF hasCallback THEN @ + 1 ELSE @]

\* gs.close(callback) as end calls it: the part that runs in the caller's
\* turn. A write mode saves the current chunk if it holds bytes and goes on
\* to the metadata document; any other mode calls back at once
gsClose(w, hasCallback, now) ==
  LET g == w.gs
      c == [w EXCEPT !.s.closes = @ + 1,
                     !.s.early = @ \/ \E i \in 1..Len(w.s.tasks) :
                                        w.s.tasks[i].cont = "close"]
      t == [Task("close", "close_save", "end") EXCEPT !.callback = hasCallback]
  IN IF ForWriting(g.mode)
     THEN IF HasBufferedBytes(g)
          THEN Spawn(c, [t EXCEPT !.saves = {g.currentChunk}])
          ELSE Spawn([c EXCEPT !.gs.uploadDate = now], [t EXCEPT !.pc = "close_md5"])
     ELSE EmitEnd(c, hasCallback)

\* what the callback a stream hands to gs.write does: write's emits
\* 'drain', end's closes the handle; neither looks at the error
Written(w, cont, hasCallback, now) ==
  IF cont = "drain" THEN EmitDrain(w) ELSE gsClose(w, hasCallback, now)

\* gs.write(buffer, callback) as the stream calls it: writeBuffer, no close
\* asked for. Without a current chunk, self.currentChunk.position throws
gsWrite(w, buffer, cont, hasCallback, now) ==
  LET g == w.gs
      c == [w EXCEPT !.s.writes = @ + 1, !.s.wrote = Append(@, buffer)]
  IN IF ~ForWriting(g.mode)
     THEN Written(w, cont, hasCallback, now)
     ELSE IF g.currentChunk = NoChunk
     THEN [w EXCEPT !.s.thrown = @ + 1]
     ELSE IF Overflows(g, Len(buffer))
     THEN Spawn([c EXCEPT !.gs.currentChunk = NextChunk(g, buffer),
                          !.gs.position = WriteAdvance(g, Len(buffer))],
                [Task("write", "write_saves", cont) EXCEPT
                   !.saves = SeqRange(ChunksToWrite(g, buffer)),
                   !.toWrite = Len(ChunksToWrite(g, buffer)),
                   !.callback = hasCallback])
     ELSE Written([c EXCEPT !.gs.currentChunk = ChunkWrite(@, buffer),
                            !.gs.position = WriteAdvance(g, Len(buffer))],
                  cont, hasCallback, now)

\* what the callback a stream hands to gs.open does. pipe's callback emits
\* the error or sets the bytes to deliver and starts the flow; write's
\* callback does not look at the error: it sets isOpen and writes
StreamOpened(w, cont, data, err, now) ==
  IF cont = "pipe"
  THEN IF err # "none" THEN EmitError(w)
       ELSE [w EXCEPT !.s.totalBytesToRead = w.gs.length - w.gs.position,
                      !.s.piping = TRUE]
  ELSE gsWrite([w EXCEPT !.gs.isOpen = TRUE], data, "drain", FALSE, now)

\* gs.open(callback) as the stream calls it: the part that runs in the
\* caller's turn
gsOpen(w, cont, data, now) ==
  LET c == [w EXCEPT !.s.opens = @ + 1]
  IN IF ~KnownMode(w.gs.mode)
     THEN StreamOpened(c, cont, data, "IllegalMode", now)
     ELSE Spawn(c, [Task("open",
                         IF w.gs.mode = "r" THEN "open_find" ELSE "open_index_files",
                         cont)
                      EXCEPT !.data = data])

\* GridStore.prototype.stream on a handle: new GridStoreStream(gs)
GridStoreStream ==
  /\ pc = "idle"
  /\ saves = {}
  /\ ~stream.made
  /\ nOps < env.ops
  /\ nOps' = nOps + 1
  /\ stream' = [NoStream EXCEPT
                  !.made = TRUE,
                  !.totalBytesToRead = IF gs.length = -1 THEN NaN
                                       ELSE gs.length - gs.position,
                  !.seekPosition = gs.position]
  /\ UNCHANGED <<bulk, cursor, env, files, chunks, gs, pc, loc, saves, cb, hist,
                 nFail, nbytes>>

\* a handle is made before its stream is
StreamConstruct ==
  /\ ~stream.made
  /\ \E byId \in BOOLEAN, mode \in env.modes, o \in env.opts : GridStore(byId, mode, o)

\* stream.pipe(destination): opens the handle, open or not
StreamPipe ==
  /\ stream.made
  /\ ~stream.piping
  /\ stream.tasks = <<>>
  /\ nOps < env.ops
  /\ nOps' = nOps + 1
  /\ Becomes(gsOpen(World, "pipe", <<>>, nOps'))
  /\ UNCHANGED <<bulk, cursor, env, pc, loc, saves, cb, hist, nFail, nbytes>>

\* stream.write(chunk): after end it emits an error; on a handle that is
\* not open it opens the handle and writes from open's callback
StreamWrite ==
  /\ stream.made
  /\ nOps < env.ops
  /\ nOps' = nOps + 1
  /\ \E len \in 1..MaxChunkSize :
       LET buffer == Fresh(nbytes, len)
           w == [World EXCEPT !.s.asked = Append(@, buffer)]
       IN /\ nbytes' = nbytes + len
          /\ Becomes(IF stream.endCalled THEN EmitError(World)
                     ELSE IF ~gs.isOpen THEN gsOpen(w, "write", buffer, nOps')
                     ELSE gsWrite(w, buffer, "drain", FALSE, nOps'))
  /\ UNCHANGED <<bulk, cursor, env, pc, loc, saves, cb, hist, nFail>>

\* stream.end(chunk, encoding, callback): the last argument is taken for the
\* callback, so a chunk given alone is not written. With a chunk, gs.write is
\* called and closes from its callback; whether or not there was a chunk,
\* gs.close is then called (unless gs.write threw)
StreamEnd ==
  /\ stream.made
  /\ ~stream.ended
  /\ nOps < env.ops
  /\ nOps' = nOps + 1
  /\ \E len \in 0..MaxChunkSize, hasCallback \in BOOLEAN :
       LET buffer == Fresh(nbytes, len)
           chunk == IF hasCallback THEN buffer ELSE <<>>
           w == [World EXCEPT !.s.endCalled = TRUE, !.s.ended = TRUE,
                              !.s.finalChunk = Len(chunk) > 0,
                              !.s.asked = IF Len(chunk) > 0 THEN Append(@, chunk) ELSE @]
           v == IF Len(chunk) > 0 THEN gsWrite(w, chunk, "close", hasCallback, nOps') ELSE w
       IN /\ nbytes' = nbytes + len
          /\ Becomes(IF v.s.thrown > w.s.thrown THEN v
                     ELSE gsClose(v, hasCallback, nOps'))
  /\ UNCHANGED <<bulk, cursor, env, pc, loc, saves, cb, hist, nFail>>

\* the two ensureIndex calls of an open made by the stream
StreamOpenEnsureIndexFiles ==
  /\ \E i \in Waiting("open_index_files"), ok \in Outcomes :
       /\ nFail' = Failed(ok)
       /\ stream' = [stream EXCEPT !.tasks[i].pc = "open_index_chunks"]
  /\ UNCHANGED <<bulk, cursor, env, files, chunks, gs, pc, loc, saves, cb, hist,
                 nOps, nbytes>>

StreamOpenEnsureIndexChunks ==
  /\ \E i \in Waiting("open_index_chunks"), ok \in Outcomes :
       /\ nFail' = Failed(ok)
       /\ stream' = [stream EXCEPT !.tasks[i].pc = "open_find"]
  /\ UNCHANGED <<bulk, cursor, env, files, chunks, gs, pc, loc, saves, cb, hist,
                 nOps, nbytes>>

\* where _open goes after the lookup, for task i
StreamAfterLookup(w, i, g) ==
  [w EXCEPT !.gs = g,
            !.s.tasks[i].pc = IF g.mode = "w" THEN "open_delete" ELSE "open_nth",
            !.s.tasks[i].n = IF g.mode = "r" THEN 0 ELSE lastChunkNumber(g)]

\* collection.find(query).nextObject of _open, for an open made by the stream
StreamOpenFind ==
  /\ \E i \in Waiting("open_find"), ok \in Outcomes :
       LET t == stream.tasks[i] IN
       /\ nFail' = Failed(ok)
       /\ IF ~ok
          THEN Becomes(StreamOpened(Over(World, i), t.cont, t.data, "db", nOps))
          ELSE IF Matches(gs) # {}
          THEN \E doc \in Matches(gs) :
                 Becomes(StreamAfterLookup(World, i, LoadDoc(gs, doc)))
          ELSE IF ~MustExist(gs)
          THEN Becomes(StreamAfterLookup(World, i, LoadNew(gs)))
          ELSE Becomes(StreamOpened([Over(World, i) EXCEPT !.gs.length = 0],
                                    t.cont, t.data, "NotFound", nOps))
  /\ UNCHANGED <<bulk, cursor, env, pc, loc, saves, cb, hist, nOps, nbytes>>

\* nthChunk of _open, for an open made by the stream
StreamOpenNthChunk ==
  /\ \E i \in Waiting("open_nth"), ok \in Outcomes :
       LET t == stream.tasks[i]
           chunk == nthChunk(gs.fileId, t.n)
       IN
       /\ nFail' = Failed(ok)
       /\ IF ~ok
          THEN Becomes(StreamOpened(Over(World, i), t.cont, t.data, "db", nOps))
          ELSE Becomes(StreamOpened(
                 [Over(World, i) EXCEPT
                    !.gs = IF gs.mode = "r" THEN OpenRead(gs, chunk)
                           ELSE OpenAppend(gs, chunk)],
                 t.cont, t.data, "none", nOps))
  /\ UNCHANGED <<bulk, cursor, env, pc, loc, saves, cb, hist, nOps, nbytes>>

\* an open of mode 'w' is answered while the handle or the collection holds
\* bytes of a write made through the stream
DropsData(w) ==
  /\ w.s.writes > 0
  /\ \/ HasBufferedBytes(w.gs)
     \/ ChunksOf(w.chunks, w.gs.fileId) # {}

\* deleteChunks of _open, for an open made by the stream
StreamOpenDeleteChunks ==
  /\ \E i \in Waiting("open_delete"), ok \in Outcomes :
       LET t == stream.tasks[i] IN
       /\ nFail' = Failed(ok)
       /\ IF ~ok
          THEN Becomes(StreamOpened(Over(World, i), t.cont, t.data, "db", nOps))
          ELSE Becomes(StreamOpened(
                 [Over(World, i) EXCEPT
                    !.chunks = deleteChunks(chunks, gs.fileId),
                    !.gs = OpenTruncate(gs),
                    !.s.reset = @ \/ DropsData(World)],
                 t.cont, t.data, "none", nOps))
  /\ UNCHANGED <<bulk, cursor, env, pc, loc, saves, cb, hist, nOps, nbytes>>

\* the answer to one of the chunk saves of a write made by the stream, in
\* any order; a failed save calls back at once and is not counted
StreamWriteSave ==
  /\ \E i \in Waiting("write_saves"), ok \in Outcomes :
       LET t == stream.tasks[i] IN
       \E s \in t.saves :
         LET left == [t EXCEPT !.saves = @ \ {s},
                               !.toWrite = IF ok THEN @ - 1 ELSE @]
             w == IF left.saves = {} THEN Over(World, i)
                  ELSE [World EXCEPT !.s.tasks[i] = left]
         IN /\ nFail' = Failed(ok)
            /\ IF ~ok
               THEN Becomes(Written(w, t.cont, t.callback, nOps))
               ELSE LET v == [w EXCEPT !.chunks = ChunkSave(chunks, gs.fileId, s)]
                    IN IF AllSaved(t)
                       THEN Becomes(Written(v, t.cont, t.callback, nOps))
                       ELSE Becomes(v)
  /\ UNCHANGED <<bulk, cursor, env, pc, loc, saves, cb, hist, nOps, nbytes>>

\* currentChunk.save of a close made by the stream
StreamCloseSaveChunk ==
  /\ \E i \in Waiting("close_save"), ok \in Outcomes :
       LET t == stream.tasks[i] IN
       /\ nFail' = Failed(ok)
       /\ IF ~ok
          THEN Becomes(EmitEnd(Over(World, i), t.callback))
          ELSE Becomes([World EXCEPT
                 !.chunks = ChunkSave(chunks, gs.fileId, CHOOSE c \in t.saves : TRUE),
                 !.s.tasks[i].pc = CloseAfterSave(gs),
                 !.s.tasks[i].saves = {},
                 !.gs.uploadDate = IF @ # NoDate THEN @ ELSE nOps])
  /\ UNCHANGED <<bulk, cursor, env, pc, loc, saves, cb, hist, nOps, nbytes>>

\* files.remove of a close made by the stream
StreamCloseRemove ==
  /\ \E i \in Waiting("close_remove"), ok \in Outcomes :
       LET t == stream.tasks[i] IN
       /\ nFail' = Failed(ok)
       /\ IF ~ok
          THEN Becomes(EmitEnd(Over(World, i), t.callback))
          ELSE Becomes([World EXCEPT !.files = RemoveFile(files, gs.fileId),
                                     !.s.tasks[i].pc = "close_md5"])
  /\ UNCHANGED <<bulk, cursor, env, pc, loc, saves, cb, hist, nOps, nbytes>>

\* the filemd5 command of a close made by the stream: buildMongoObject
\* builds the document from the handle as it is when the answer comes
StreamCloseMd5 ==
  /\ \E i \in Waiting("close_md5"), ok \in Outcomes :
       LET t == stream.tasks[i] IN
       /\ nFail' = Failed(ok)
       /\ IF ~ok
          THEN Becomes(EmitEnd(Over(World, i), t.callback))
          ELSE Becomes([World EXCEPT
                 !.s.tasks[i].doc = buildMongoObject(gs, FileBytes(chunks, gs.fileId)),
                 !.s.tasks[i].pc = "close_filesave"])
  /\ UNCHANGED <<bulk, cursor, env, pc, loc, saves, cb, hist, nOps, nbytes>>

\* files.save of a close made by the stream, and the callback end gave
StreamCloseFileSave ==
  /\ \E i \in Waiting("close_filesave"), ok \in Outcomes :
       LET t == stream.tasks[i] IN
       /\ nFail' = Failed(ok)
       /\ Becomes(EmitEnd(IF ok
                          THEN [Over(World, i) EXCEPT !.files = FilesSave(files, t.doc)]
                          ELSE Over(World, i),
                          t.callback))
  /\ UNCHANGED <<bulk, cursor, env, pc, loc, saves, cb, hist, nOps, nbytes>>

\* _read's length: what is left of a file shorter than a chunk, else a chunk
ReadLength(g, s) ==
  IF g.length < g.internalChunkSize THEN g.length - s.seekPosition
  ELSE g.internalChunkSize

\* buffer.slice(0, buffer._index) of a partial last read
DeliveredMutant(buffer, index) == buffer

Delivered(buffer, index) == SubSeq(buffer, 1, index)

\* the callback _read hands to gs.read: end-of-stream once endCalled is set
\* or no buffer came; else the buffer, or its filled part when it is longer
\* than what is left to deliver
StreamPushed(w, err, buffer, index) ==
  LET s == [w.s EXCEPT !.reading = FALSE] IN
  IF s.endCalled \/ err # "none"
  THEN [w EXCEPT !.s = [s EXCEPT !.eos = @ + 1]]
  ELSE IF Len(buffer) <= s.totalBytesToRead
  THEN [w EXCEPT !.s = [s EXCEPT
          !.pushed = @ \o buffer,
          !.totalBytesToRead = @ - Len(buffer),
          !.endCalled = s.totalBytesToRead - Len(buffer) <= 0]]
  ELSE [w EXCEPT !.s = [s EXCEPT
          !.pushed = @ \o Delivered(buffer, index),
          !.totalBytesToRead = @ - index,
          !.endCalled = s.totalBytesToRead - index <= 0]]

\* one turn of gs.read for the read t, which is task i (i = 0: it is not
\* yet among the tasks)
StreamReadTurn(w, i, t) ==
  LET g == w.gs
      cur == g.currentChunk
      o == IF i = 0 THEN w ELSE Over(w, i)
  IN IF ChunkLength(cur) - cur.position + t.index >= t.len
     THEN LET n == t.len - t.index
              v == [o EXCEPT !.gs.currentChunk = SliceChunk(cur, n),
                             !.gs.position = ReadAdvance(g, t)]
          IN IF t.len = 0 /\ Len(t.buf) = 0
             THEN StreamPushed(v, "FileDoesNotExist", <<>>, 0)
             ELSE StreamPushed(v, "none", Copy(t.buf, Slice(cur, n), t.index), t.index)
     ELSE LET n == ChunkLength(cur) - cur.position
          IN Spawn([o EXCEPT !.gs.currentChunk = SliceChunk(cur, n)],
                   [t EXCEPT !.buf = Copy(t.buf, Slice(cur, n), t.index),
                             !.index = @ + SliceLen(cur, n),
                             !.n = cur.chunkNumber + 1])

\* _read(n), called by the stream machinery while it flows and no read is
\* in flight: gs.read(length, callback)
GridStoreStreamRead ==
  /\ stream.piping
  /\ ~stream.reading
  /\ stream.eos = 0
  /\ ReadLength(gs, stream) >= 0
  /\ \E u \in UninitBytes :
       Becomes(StreamReadTurn(
         [World EXCEPT !.s.reading = TRUE], 0,
         [Task("read", "read_nth", "push") EXCEPT
            !.len = ReadLength(gs, stream),
            !.buf = [k \in 1..ReadLength(gs, stream) |-> u]]))
  /\ UNCHANGED <<bulk, cursor, env, pc, loc, saves, cb, hist, nOps, nFail, nbytes>>

\* nthChunk of a read made by the stream
StreamReadNthChunk ==
  /\ \E i \in Waiting("read_nth"), ok \in Outcomes :
       LET t == stream.tasks[i]
           chunk == nthChunk(gs.fileId, t.n)
       IN
       /\ nFail' = Failed(ok)
       /\ IF ~ok
          THEN Becomes(StreamPushed(Over(World, i), "db", <<>>, 0))
          ELSE IF ChunkLength(chunk) > 0
          THEN Becomes(StreamReadTurn([World EXCEPT !.gs.currentChunk = chunk], i, t))
          ELSE IF t.index > 0
          THEN Becomes(StreamPushed(Over(World, i), "none", t.buf, t.index))
          ELSE Becomes(StreamPushed(Over(World, i), "Corrupt", <<>>, 0))
  /\ UNCHANGED <<bulk, cursor, env, pc, loc, saves, cb, hist, nOps, nbytes>>

\* ---------------------------------------------------------- specification
Construct ==
  \E byId \in BOOLEAN, mode \in env.modes, o \in env.opts : GridStore(byId, mode, o)
DoWrite == \E len \in 0..MaxData, close \in BOOLEAN : Write(len, close)
DoRead == \E len \in -1..MaxPos : Read(len)
\* absolute seeks to every position, relative ones by a step or two
DoSeek ==
  \/ \E position \in 0..MaxPos : Seek(position, IO_SEEK_SET)
  \/ \E position \in {-2, -1, 1}, seekLocation \in {IO_SEEK_CUR, IO_SEEK_END} :
       Seek(position, seekLocation)

NextRW ==
  \/ Construct
  \/ Open \/ OpenEnsureIndexFiles \/ OpenEnsureIndexChunks \/ OpenFind
  \/ OpenNthChunk \/ OpenDeleteChunks
  \/ DoWrite \/ WriteSave
  \/ DoRead \/ ReadNthChunk
  \/ Close \/ CloseSaveChunk \/ CloseRemove \/ CloseMd5 \/ CloseFileSave

Next ==
  \/ NextRW
  \/ DoSeek \/ SeekSave \/ SeekNthChunk
  \/ Rewind \/ RewindDeleteChunks
  \/ Unlink \/ UnlinkDeleteChunks \/ UnlinkRemove

\* every call in every mode on an empty database or on a stored file, with
\* round trips that fail
Spec == Init /\ [][Next]_vars

\* files are written through 'w' handles and read back through 'r' handles;
\* no seek, no failing round trip
InitRW ==
  InitEmpty([ops |-> OpsRW, fails |-> 0, modes |-> {"w", "r"}, opts |-> PlainOptions, db |-> PlainDb])

SpecRW == InitRW /\ [][NextRW]_vars

\* a stored file is read and seeked through 'r' handles
InitRead ==
  InitStored([ops |-> OpsRead, fails |-> 0, modes |-> {"r"}, opts |-> PlainOptions, db |-> PlainDb])

NextRead ==
  \/ Construct
  \/ Open \/ OpenFind \/ OpenNthChunk
  \/ DoRead \/ ReadNthChunk
  \/ DoSeek \/ SeekNthChunk
  \/ Rewind
  \/ Close

SpecRead == InitRead /\ [][NextRead]_vars

\* a stored file is appended to and seeked through 'w+' handles
InitAppend ==
  InitStored([ops |-> OpsAppend, fails |-> 0, modes |-> {"w+"}, opts |-> PlainOptions, db |-> PlainDb])

NextAppend ==
  \/ Construct
  \/ Open \/ OpenEnsureIndexFiles \/ OpenEnsureIndexChunks \/ OpenFind
  \/ OpenNthChunk
  \/ DoWrite \/ WriteSave
  \/ DoSeek \/ SeekSave \/ SeekNthChunk
  \/ Close \/ CloseSaveChunk \/ CloseRemove \/ CloseMd5 \/ CloseFileSave

SpecAppend == InitAppend /\ [][NextAppend]_vars

\* the options of SpecConfig: w not given, 0 or 1 with at most one flag, a
\* boolean safe, and safe objects
OneFlag ==
  {NoConcern}
    \cup {[NoConcern EXCEPT !.j = v] : v \in {"true", "false"}}
    \cup {[NoConcern EXCEPT !.journal = v] : v \in {"true", "false"}}
    \cup {[NoConcern EXCEPT !.fsync = v] : v \in {"true", "false"}}

WithConcern(c) ==
  [NoOptions EXCEPT !.w = c.w, !.j = c.j, !.journal = c.journal, !.fsync = c.fsync]

ConcernOptions ==
  {WithConcern([c EXCEPT !.w = w]) : c \in OneFlag, w \in {NoW, 0, 1}}
    \cup {[NoOptions EXCEPT !.safe = [type |-> "boolean", value |-> b, object |-> NoConcern]] :
            b \in BOOLEAN}
    \cup {[NoOptions EXCEPT !.safe = [type |-> "object", value |-> FALSE,
                                     object |-> [c EXCEPT !.w = 0]]] : c \in OneFlag}

ConfigDbs ==
  {PlainDb,
   [PlainDb EXCEPT !.options = [NoConcern EXCEPT !.w = 0, !.fsync = "true"]],
   [PlainDb EXCEPT !.safe = [type |-> "object", value |-> FALSE,
                             object |-> [NoConcern EXCEPT !.w = 0, !.j = "true"]]]}

\* handles are made for writing with every one of these options on every
\* one of these dbs
InitConcern ==
  \E db \in ConfigDbs :
    InitEmpty([ops |-> OpsConcern, fails |-> 0, modes |-> {"w"},
               opts |-> ConcernOptions, db |-> db])

NextConcern == Construct

SpecConcern == InitConcern /\ [][NextConcern]_vars

\* handles are made, opened, written and given a new chunk size
InitSize ==
  \/ InitEmpty([ops |-> OpsSize, fails |-> 0, modes |-> {"r", "w", "w+"},
                opts |-> {NoOptions}, db |-> PlainDb])
  \/ /\ env = [ops |-> OpsSize, fails |-> 0, modes |-> {"r", "w", "w+"},
                opts |-> {NoOptions}, db |-> PlainDb]
     /\ bulk = NoBulk
     /\ cursor = NoCursor
     /\ stream = NoStream
     /\ files = {StoredFile(2, 1)}
     /\ chunks = StoredChunks(2, 1)
     /\ nbytes = 2
     /\ gs = NoHandle
     /\ pc = "none"
     /\ loc = NoLoc
     /\ saves = {}
     /\ cb = Started("none")
     /\ hist = NoHist
     /\ nOps = 0
     /\ nFail = 0

DoSetChunkSize == \E value \in ChunkSizes : SetChunkSize(value)

NextSize ==
  \/ Construct
  \/ Open \/ OpenEnsureIndexFiles \/ OpenEnsureIndexChunks \/ OpenFind
  \/ OpenNthChunk \/ OpenDeleteChunks
  \/ DoWrite \/ WriteSave
  \/ DoSetChunkSize

SpecSize == InitSize /\ [][NextSize]_vars

\* a new file is written through a 'w' handle, and more than one of the
\* saves a write fans out may fail
InitFan ==
  InitEmpty([ops |-> OpsFan, fails |-> MaxFail + 1, modes |-> {"w"},
             opts |-> PlainOptions, db |-> PlainDb])

NextFan ==
  \/ Construct
  \/ Open \/ OpenEnsureIndexFiles \/ OpenEnsureIndexChunks \/ OpenFind
  \/ OpenDeleteChunks
  \/ DoWrite \/ WriteSave
  \/ CloseSaveChunk \/ CloseMd5 \/ CloseFileSave

SpecFan == InitFan /\ [][NextFan]_vars

\* a stored file is piped through the stream of an 'r' handle; the stream
\* machinery calls _read again whenever it can, and every request is answered
InitPipe ==
  InitStored([ops |-> OpsPipe, fails |-> MaxFail, modes |-> {"r"},
              opts |-> {NoOptions}, db |-> PlainDb])

NextPipe ==
  \/ StreamConstruct \/ GridStoreStream \/ StreamPipe
  \/ StreamOpenFind \/ StreamOpenNthChunk
  \/ GridStoreStreamRead \/ StreamReadNthChunk

SpecPipe ==
  /\ InitPipe
  /\ [][NextPipe]_vars
  /\ WF_vars(GridStoreStreamRead)
  /\ WF_vars(StreamReadNthChunk)

\* a new file is written through the stream of a 'w' handle and ended
InitDuplex ==
  InitEmpty([ops |-> OpsDuplex, fails |-> MaxFail, modes |-> {"w"},
             opts |-> {o \in PlainOptions : o.chunk_size = MaxChunkSize},
             db |-> PlainDb])

NextDuplex ==
  \/ StreamConstruct \/ GridStoreStream
  \/ StreamWrite \/ StreamEnd
  \/ StreamOpenEnsureIndexFiles \/ StreamOpenEnsureIndexChunks
  \/ StreamOpenFind \/ StreamOpenDeleteChunks
  \/ StreamWriteSave
  \/ StreamCloseSaveChunk \/ StreamCloseRemove \/ StreamCloseMd5
  \/ StreamCloseFileSave

SpecDuplex == InitDuplex /\ [][NextDuplex]_vars

\* the static unlink is called with every list of names and with one name,
\* on a database that holds one file
InitBulk ==
  InitStored([ops |-> OpsBulk, fails |-> MaxFail, modes |-> {"w"},
              opts |-> {NoOptions}, db |-> PlainDb])

DoStaticUnlink ==
  \/ \E names \in NameLists : StaticUnlink(names, TRUE)
  \/ \E name \in Names : StaticUnlink(<<name>>, FALSE)

NextBulk ==
  \/ DoStaticUnlink
  \/ BulkEnsureIndexFiles \/ BulkEnsureIndexChunks \/ BulkFind
  \/ BulkOpenDeleteChunks \/ BulkDeleteChunks \/ BulkRemove

SpecBulk == InitBulk /\ [][NextBulk]_vars

\* a cursor over every result set, the server sending it in every batching:
\* a plain cursor with every sort order, a cursor not built from a find, a
\* tailable cursor with every numberOfRetries and every run of
\* tailable-retry errors before its documents
Cursors ==
  {NewCursor(FALSE, NoRetries, orderby, query, Fresh(0, n), 0) :
     orderby \in {"null", "list", "invalid"}, query \in BOOLEAN,
     n \in 0..MaxDocs}
  \cup
  {NewCursor(TRUE, retries, "null", TRUE, Fresh(0, n), transient) :
     retries \in NoRetries..MaxRetries, n \in 0..MaxDocs,
     transient \in 0..MaxTransient}

InitCursor ==
  /\ env = [ops |-> 0, fails |-> 0, modes |-> {"r"}, opts |-> {NoOptions},
            db |-> PlainDb]
  /\ bulk = NoBulk
  /\ cursor \in Cursors
  /\ stream = NoStream
  /\ files = {}
  /\ chunks = {}
  /\ gs = NoHandle
  /\ pc = "none"
  /\ loc = NoLoc
  /\ saves = {}
  /\ cb = Started("none")
  /\ hist = NoHist
  /\ nOps = 0
  /\ nFail = 0
  /\ nbytes = 0

NextCursor ==
  \/ NextObject \/ NextObjectReply \/ RetryTimer
  \/ Each \/ EachReply
  \/ ToArray \/ ToArrayReply
  \/ Count \/ CountReply
  \/ CursorClose \/ ConnectionLost

SpecCursor == InitCursor /\ [][NextCursor]_vars

\* limit, skip, batchSize and sort are called before, between and during the
\* calls that fetch, on plain cursors over every result set and on a
\* tailable cursor
ShapedCursors ==
  {NewCursor(FALSE, NoRetries, "null", TRUE, Fresh(0, n), 0) : n \in 0..MaxDocs}
  \cup
  {NewCursor(TRUE, NoRetries, "null", TRUE, Fresh(0, 1), transient) :
     transient \in 0..1}

InitShape ==
  /\ env = [ops |-> 0, fails |-> 0, modes |-> {"r"}, opts |-> {NoOptions},
            db |-> PlainDb]
  /\ bulk = NoBulk
  /\ cursor \in ShapedCursors
  /\ stream = NoStream
  /\ files = {}
  /\ chunks = {}
  /\ gs = NoHandle
  /\ pc = "none"
  /\ loc = NoLoc
  /\ saves = {}
  /\ cb = Started("none")
  /\ hist = NoHist
  /\ nOps = 0
  /\ nFail = 0
  /\ nbytes = 0

NextShape ==
  \/ NextObject \/ NextObjectReply \/ RetryTimer
  \/ Each \/ EachReply
  \/ ToArray \/ ToArrayReply
  \/ StreamRead
  \/ CursorClose
  \/ Limit \/ Skip \/ BatchSize \/ Sort

SpecShape == InitShape /\ [][NextShape]_vars


\* -------------------------------------------------------------- properties
Doc(id) == CHOOSE d \in files : d._id = id
CeilDiv(a, b) == (a + b - 1) \div b

\* the last write session was opened in this mode, called nothing but write
\* and close, its close has succeeded, nothing has written since and no
\* round trip has failed
WroteAndClosed(mode) ==
  hist.closed /\ hist.pure /\ hist.mode = mode /\ nFail = 0

\* a read to the end, made right after open through an 'r' handle on the
\* file of the last write session, has called back
ReadBack ==
  gs.mode = "r" /\ gs.fileId = hist.id /\ hist.fullErr # "pending"

C2_ChunkCountAtLeastOne ==
  WroteAndClosed("w")
    => Cardinality(ChunksOf(chunks, hist.id))
         = Max(1, CeilDiv(Len(hist.written), Doc(hist.id).chunkSize))

\* C2, amended: after close of a 'w' session the file has
\* ceil(length / chunkSize) chunk documents, none for an empty payload, and
\* the stored length is the number of bytes written
C2_ChunkCount ==
  WroteAndClosed("w")
    => /\ Doc(hist.id).length = Len(hist.written)
       /\ Cardinality(ChunksOf(chunks, hist.id))
            = CeilDiv(Len(hist.written), Doc(hist.id).chunkSize)

C2_Witness ==
  /\ WroteAndClosed("w")
  /\ Len(hist.written) = 5
  /\ Doc(hist.id).chunkSize = 2
  /\ {Len(d.data) : d \in ChunksOf(chunks, hist.id)} = {2, 1}
  /\ Cardinality(ChunksOf(chunks, hist.id)) = 3

\* C3: after every successful close of a write-mode session on a file whose
\* document agreed with its chunks at open, whatever was written and seeked,
\* the file's chunk documents are numbered 0..k without gap or duplicate and
\* all but the last hold exactly chunkSize bytes
C3_ChunksContiguousAndFull ==
  (hist.closed /\ nFail = 0 /\ hist.oldLen = Len(hist.old))
    => LET ds == ChunksOf(chunks, hist.id) IN
       /\ {d.n : d \in ds} = 0..(Cardinality(ds) - 1)
       /\ \A d \in ds : d.n < Cardinality(ds) - 1
                          => Len(d.data) = Doc(hist.id).chunkSize

\* a read has called back on an open 'r' handle that was read to the end
\* right after open, then seeked to hist.lastSeek, then asked for the bytes
\* from there to the end
SeekedAndRead ==
  /\ gs.mode = "r" /\ gs.isOpen /\ pc = "idle" /\ cb.op = "read"
  /\ hist.fullErr = "none"
  /\ hist.lastSeek >= 0
  /\ hist.readLen = gs.length - hist.lastSeek

\* the bytes of the full read with the first p discarded
Discard(full, p) == SubSeq(full, p + 1, Len(full))

\* C4: on an 'r' handle on a file of length L, for every p in 0..L, seek(p)
\* followed by read(L - p) returns the bytes of the full sequential read
\* with the first p bytes discarded
C4_SeekThenRead ==
  (SeekedAndRead /\ hist.lastSeek <= gs.length)
    => (cb.n = 1 /\ cb.err = "none" /\ cb.data = Discard(hist.full, hist.lastSeek))

\* the same for the positions before the end only, where the read asks for at
\* least one byte
SeekThenReadBeforeEnd ==
  (SeekedAndRead /\ hist.lastSeek < gs.length)
    => (cb.n = 1 /\ cb.err = "none" /\ cb.data = Discard(hist.full, hist.lastSeek))

\* the open call of the handle has called back without an error
OpenedIn(mode) ==
  pc = "idle" /\ cb.op = "open" /\ cb.n = 1 /\ cb.err = "none" /\ gs.mode = mode

\* C5: a successful open in mode 'w' leaves no chunk document of the file, no
\* chunk document of the file is stored before that open has called back,
\* and after the session has written and closed no chunk has an index beyond
\* the last chunk of what was written
C5_TruncateBeforePersist ==
  /\ [](WroteAndClosed("w")
          => \A d \in ChunksOf(chunks, hist.id) :
               d.n < CeilDiv(Len(hist.written), Doc(hist.id).chunkSize))
  /\ [][/\ (pc = "open_delete" /\ cb'.n = 1 /\ cb'.err = "none")
             => ChunksOf(chunks', gs'.fileId) = {}
        /\ (gs'.mode = "w" /\ ~gs'.isOpen)
             => ChunksOf(chunks', gs'.fileId) \subseteq ChunksOf(chunks, gs'.fileId)]_vars

C5_Witness ==
  /\ WroteAndClosed("w") /\ hist.found
  /\ Len(hist.old) = 3 /\ Len(hist.written) = 1
  /\ gs.internalChunkSize = 1
  /\ Cardinality(ChunksOf(chunks, hist.id)) = 1

\* C6: after open in mode 'w' has found a document, the handle has that
\* document's id, length 0, position 0, an empty current chunk 0, and
\* contentType, chunkSize and metadata from the caller's options when given
\* and from the document otherwise
C6_TruncateOpenState ==
  (OpenedIn("w") /\ hist.found)
    => LET doc == Doc(gs.fileId)
           o == gs.options
       IN /\ gs.fileId \in {d._id : d \in files}
          /\ gs.length = 0
          /\ gs.position = 0
          /\ gs.currentChunk = ChunkNew(0)
          /\ gs.contentType = IF o.content_type = "null" THEN doc.contentType
                              ELSE o.content_type
          /\ gs.internalChunkSize = IF o.chunk_size = 0 THEN doc.chunkSize
                                    ELSE o.chunk_size
          /\ gs.metadata = IF o.metadata = "null" THEN doc.metadata ELSE o.metadata

\* C7: open in mode 'w+' on a stored file of length L loads chunk
\* floor((L - 1) / chunkSize), chunk 0 when L is 0, with its cursor at its
\* data length, and sets position to L; after bytes were written and the
\* handle closed the file holds the old bytes followed by the written ones
\* and its stored length is L plus their number
C7_Append ==
  /\ (OpenedIn("w+") /\ hist.found /\ hist.oldLen = Len(hist.old))
       => LET doc == Doc(gs.fileId) IN
          /\ gs.currentChunk.chunkNumber
               = (IF doc.length = 0 THEN 0 ELSE (doc.length - 1) \div doc.chunkSize)
          /\ gs.currentChunk.position = Len(gs.currentChunk.data)
          /\ gs.position = doc.length
  /\ (WroteAndClosed("w+") /\ hist.found /\ hist.oldLen = Len(hist.old))
       => /\ FileBytes(chunks, hist.id) = hist.old \o hist.written
          /\ Doc(hist.id).length = hist.oldLen + Len(hist.written)

C7_Witness ==
  /\ WroteAndClosed("w+") /\ hist.found
  /\ hist.oldLen = 2 /\ Len(hist.old) = 2 /\ Doc(hist.id).chunkSize = 2
  /\ Len(hist.written) = 3
  /\ FileBytes(chunks, hist.id) = hist.old \o hist.written

\* C8: open on a handle whose mode is none of 'r', 'w', 'w+' calls back with
\* an error, sends no request to the database and leaves isOpen false
C8_IllegalMode ==
  /\ []((cb.op = "open" /\ ~(gs.mode \in {"r", "w", "w+"}))
          => (pc = "idle" /\ cb.n = 1 /\ cb.err = "IllegalMode" /\ ~gs.isOpen))
  /\ [][(cb'.op = "open" /\ ~(gs.mode \in {"r", "w", "w+"}))
          => (files' = files /\ chunks' = chunks /\ nFail' = nFail /\ gs' = gs)]_vars

C8_Witness ==
  cb.op = "open" /\ gs.mode = "a" /\ cb.err = "IllegalMode" /\ files # {}

\* C9: open in mode 'r' for an id or a file name that no document has calls
\* back with a not-found error, leaves isOpen false, and neither adds nor
\* removes a document
C9_ReadNotFound ==
  /\ [][(pc = "open_find" /\ gs.mode = "r" /\ Matches(gs) = {} /\ nFail' = nFail)
          => /\ cb'.op = "open" /\ cb'.n = 1 /\ cb'.err = "NotFound"
             /\ pc' = "idle"
             /\ ~gs'.isOpen]_vars
  /\ [][(gs.mode = "r" /\ cb'.op = "open")
          => (files' = files /\ chunks' = chunks)]_vars
  /\ []((gs.mode = "r" /\ cb.op = "open" /\ cb.err = "NotFound") => ~gs.isOpen)

C9_Witness ==
  /\ gs.mode = "r" /\ cb.op = "open" /\ cb.n = 1 /\ cb.err = "NotFound"
  /\ gs.referenceBy = REFERENCE_BY_FILENAME
  /\ ~gs.isOpen

Closing == pc \in {"close_save", "close_remove", "close_md5", "close_filesave"}

\* C11: a write that fanned out chunk saves calls back with success, and
\* starts the close it was asked for, only when every one of the saves has
\* been acknowledged, in whatever order the acknowledgements arrive
C11_FanOutBarrier ==
  /\ (cb.op = "write" /\ cb.n >= 1 /\ cb.err = "none")
       => (saves = {} /\ loc.toWrite = 0)
  /\ (cb.op = "write" /\ Closing) => (saves = {} /\ loc.toWrite = 0)

C11_Witness ==
  /\ cb.op = "write" /\ cb.n = 1 /\ cb.err = "none"
  /\ gs.mode = "w" /\ Len(hist.written) = 3
  /\ Cardinality(ChunksOf(chunks, gs.fileId)) = 3
  /\ saves = {}

\* C12: a write call on a handle in a write mode adds the length of its data
\* to position in the call itself, before any of its chunk saves is
\* answered, and no answer to a save, failed or not, changes position
C12_OptimisticPosition ==
  [][/\ (cb'.op = "write" /\ nOps' = nOps + 1 /\ gs.mode \in {"w", "w+"})
          => gs'.position = gs.position + (nbytes' - nbytes)
     /\ (saves # {}) => gs'.position = gs.position]_vars

C12_Witness ==
  /\ cb.op = "write" /\ cb.n = 1 /\ cb.err = "db"
  /\ saves # {}
  /\ gs.mode = "w" /\ Len(hist.written) = 3
  /\ gs.position = 3

FileIds == {d._id : d \in files}

\* C13: a metadata document is added or changed by no step but the
\* files.save of close, so an open write session on a new file whose close
\* has not got as far as the metadata has no metadata document, whatever
\* chunk documents it has stored
C13_MetadataOnlyAtClose ==
  /\ [][(\E d \in files' : d \notin files) => pc = "close_filesave"]_vars
  /\ []((gs.isOpen /\ gs.mode \in {"w", "w+"} /\ ~hist.found /\ gs.uploadDate = NoDate)
          => gs.fileId \notin FileIds)

C13_Witness ==
  /\ gs.isOpen /\ gs.mode = "w" /\ ~hist.found
  /\ cb.op = "write" /\ cb.n = 1 /\ cb.err = "none"
  /\ ChunksOf(chunks, gs.fileId) # {}
  /\ gs.fileId \notin FileIds

\* the document chunk.save stores for the current chunk of the handle g
CurrentChunkDoc(g) ==
  [files_id |-> g.fileId, n |-> g.currentChunk.chunkNumber,
   data |-> g.currentChunk.data]

\* C14: in close the checksum command is sent only when the save of a
\* current chunk with buffered bytes has been acknowledged, the metadata
\* document is saved only with the checksum the command returned over the
\* chunks as stored, and a failed chunk save or checksum command is
\* reported to the callback and ends the close without a metadata save
C14_CloseOrder ==
  [][/\ (pc' = "close_md5" /\ pc # "close_md5" /\ gs'.currentChunk.position > 0)
          => CurrentChunkDoc(gs') \in chunks'
     /\ (pc = "close_filesave" /\ files' # files)
          => \E d \in files' : /\ d._id = gs.fileId
                               /\ d.md5 = loc.md5
                               /\ loc.md5 = FileBytes(chunks, gs.fileId)
     /\ (pc \in {"close_save", "close_md5"} /\ nFail' # nFail)
          => /\ cb'.n = cb.n + 1 /\ cb'.err = "db"
             /\ pc' = "idle"
             /\ files' = files]_vars

C14_Witness ==
  /\ pc = "idle" /\ cb.op = "write" /\ cb.n = 1 /\ cb.err = "db"
  /\ gs.mode = "w" /\ ~hist.found
  /\ gs.uploadDate # NoDate
  /\ gs.currentChunk.position > 0
  /\ CurrentChunkDoc(gs) \in chunks
  /\ gs.fileId \notin FileIds

\* C15: once a handle has an upload date (from its first close or from the
\* document it loaded) no later step of the handle changes it, and the
\* document a close saves carries that date
C15_UploadDateSetOnce ==
  [][/\ (nFail' = 0 /\ gs.isOpen /\ gs.uploadDate # NoDate /\ cb'.op # "new")
          => gs'.uploadDate = gs.uploadDate
     /\ (pc = "close_filesave" /\ files' # files)
          => \E d \in files' : d._id = gs.fileId /\ d.uploadDate = gs.uploadDate]_vars

\* C16: a metadata document, once stored, is the one document of its id in
\* every later state until unlink removes it: no step other than unlink's
\* removal leaves its id without a document, and no state holds two
\* documents of one id
C16_OneDocumentPerId ==
  /\ [][pc # "unlink_remove" => \A d \in files : \E e \in files' : e._id = d._id]_vars
  /\ [](\A d, e \in files : d._id = e._id => d = e)

\* the close of an open write handle has just called back with success,
\* no round trip has failed, and the file the handle opened was well formed
ClosedNow ==
  /\ pc = "idle" /\ hist.closed /\ nFail = 0
  /\ cb.op \in {"close", "write"} /\ cb.n = 1 /\ cb.err = "none"
  /\ hist.oldLen = Len(hist.old)

\* C17: the length of the metadata document a successful close saves is the
\* number of bytes the file's chunk documents hold, whatever writes and
\* seeks came before the close
C17_LengthIsStoredBytes ==
  ClosedNow => Doc(hist.id).length = Len(FileBytes(chunks, hist.id))

\* the step is the answer to read's request for the next chunk, and the
\* chunk is missing or empty
NextChunkMissing ==
  /\ pc = "read_nth" /\ nFail' = nFail
  /\ ChunkLength(nthChunk(gs.fileId, loc.n)) = 0

\* C18: a read whose current chunk is exhausted with bytes still to copy
\* and whose next chunk is missing or empty calls back with the corruption
\* error, whether or not it has copied bytes from earlier chunks
C18_CorruptionOnMissingChunk ==
  [][(NextChunkMissing /\ loc.index < Len(loc.buf))
       => (cb'.n = cb.n + 1 /\ cb'.err = "Corrupt")]_vars

\* the step makes read call back with data
ReadReturns ==
  /\ \/ pc = "idle" /\ nOps' # nOps
     \/ pc = "read_nth"
  /\ cb'.op = "read" /\ cb'.n = 1 /\ cb'.err = "none"

\* the number of bytes the returning read has copied from chunks: all of
\* the buffer, or what earlier chunks gave when the next one is missing
BytesCopied == IF NextChunkMissing THEN loc.index ELSE Len(cb'.data)

\* C19: every read that returns data has advanced position by the number
\* of bytes it copied from chunks
C19_ReadAdvancesByCopied ==
  [][ReadReturns => gs'.position = gs.position + BytesCopied]_vars

\* C20: unlink removes the chunk documents of the file id first and the
\* metadata document second; a failed chunk removal is reported and the
\* metadata removal is not attempted, and a failed metadata removal is
\* reported with the chunk documents staying removed
C20_UnlinkOrder ==
  /\ [][/\ (pc = "unlink_chunks" /\ nFail' # nFail)
             => /\ pc' = "idle"
                /\ cb'.n = cb.n + 1 /\ cb'.err = "db"
                /\ files' = files /\ chunks' = chunks
        /\ (pc = "unlink_chunks" /\ nFail' = nFail)
             => /\ pc' = "unlink_remove"
                /\ ChunksOf(chunks', gs.fileId) = {}
                /\ files' = files
        /\ (pc = "unlink_remove" /\ nFail' # nFail)
             => /\ cb'.n = cb.n + 1 /\ cb'.err = "db"
                /\ files' = files /\ chunks' = chunks
        /\ (pc = "unlink_remove" /\ nFail' = nFail)
             => /\ cb'.n = cb.n + 1 /\ cb'.err = "none"
                /\ gs.fileId \notin {d._id : d \in files'}
                /\ chunks' = chunks]_vars
  /\ [](pc = "unlink_remove" => ChunksOf(chunks, gs.fileId) = {})

C20_Witness ==
  /\ pc = "idle" /\ cb.op = "unlink" /\ cb.n = 1 /\ cb.err = "db"
  /\ gs.isOpen /\ gs.mode = "w+" /\ hist.id = gs.fileId /\ Len(hist.old) > 0
  /\ gs.fileId \in FileIds
  /\ ChunksOf(chunks, gs.fileId) = {}

\* the step ends a rewind call and no round trip of it has failed
RewindEnds ==
  /\ \/ pc = "idle" /\ nOps' # nOps
     \/ pc = "rewind_delete" /\ nFail' = nFail
  /\ cb'.op = "rewind" /\ pc' = "idle"

\* C23: every rewind completes with position 0 and the current chunk being
\* chunk 0 with its cursor at 0, in a write mode and in a read mode, on
\* chunk 0 and away from it; a write-mode rewind away from chunk 0 leaves
\* no chunk document of the file
C23_RewindToStart ==
  [][/\ RewindEnds
          => /\ cb'.n = 1 /\ cb'.err = "none"
             /\ gs'.position = 0
             /\ gs'.currentChunk.chunkNumber = 0
             /\ gs'.currentChunk.position = 0
     /\ (RewindEnds /\ pc = "rewind_delete")
          => ChunksOf(chunks', gs.fileId) = {}]_vars

\* C24: assigning chunkSize changes the chunk size of the handle only when
\* the handle is in a write mode, its position is 0 and it has no upload
\* date; in every other state the chunk size stays, no error is raised, and
\* nothing else of the handle changes either way
C24_ChunkSizeSetter ==
  [][(cb'.op = "chunkSize" /\ nOps' # nOps)
       => /\ gs'.internalChunkSize =
               IF gs.mode \in {"w", "w+"} /\ gs.position = 0 /\ gs.uploadDate = NoDate
               THEN loc'.value ELSE gs.internalChunkSize
          /\ cb'.err = "none"
          /\ [gs' EXCEPT !.internalChunkSize = 0] = [gs EXCEPT !.internalChunkSize = 0]
          /\ files' = files /\ chunks' = chunks]_vars

C24_Witness ==
  /\ cb.op = "chunkSize" /\ cb.err = "none"
  /\ gs.mode = "w" /\ gs.isOpen /\ gs.position > 0 /\ gs.uploadDate = NoDate
  /\ loc.value # gs.internalChunkSize

\* the options give no acknowledgement together with fsync or a journal flag
CombinesNoAck(c) ==
  c.w # NoW /\ c.w < 1 /\ (c.fsync = "true" \/ c.j = "true" \/ c.journal = "true")

\* C25: a constructor call whose write-concern options (given directly, or
\* in a safe object when none is given directly) combine w < 1 with fsync,
\* j or journal true fails with the configuration error and makes no handle
C25_ConfigError ==
  [][(cb'.op = "new" /\ nOps' # nOps
        /\ \/ CombinesNoAck(hist'.options)
           \/ /\ ~GivesConcern(hist'.options)
              /\ hist'.options.safe.type = "object"
              /\ CombinesNoAck(hist'.options.safe.object))
       => (cb'.err = "ConfigError" /\ gs' = gs /\ pc' = pc)]_vars

C25_Witness ==
  /\ cb.op = "new" /\ cb.err = "ConfigError"
  /\ pc = "none" /\ gs = NoHandle
  /\ hist.options.w = 0 /\ hist.options.journal = "true"

\* every unlink the array call started has called back
AllUnlinksDone == bulk.started /\ bulk.isArray /\ Pending(bulk) = {}

\* C21: the static unlink called with a list of names calls its callback
\* exactly once, and not before every unlink of the list has called back:
\* for every list, the empty one and those with a name twice included
C21_BulkCallbackOnce ==
  /\ bulk.isArray => bulk.called <= 1
  /\ (bulk.isArray /\ bulk.called = 1) => Pending(bulk) = {}
  /\ AllUnlinksDone => bulk.called = 1

NextObjectCalled ==
  \/ cursor'.ops = cursor.ops + 1 /\ cursor'.cb.op = "nextObject"
  \/ cursor.pc = "retry" /\ cursor'.pc # "retry"
C26_ClosedNextObject ==
  [][(NextObjectCalled /\ (cursor.state = CLOSED \/ cursor.dead)) =>
       /\ cursor'.pc = "idle"
       /\ cursor'.cb.n = 1
       /\ cursor'.cb.err = "Closed"
       /\ cursor'.cb.kind = "none"
       /\ cursor'.fetches = cursor.fetches
       /\ cursor'.currentNumberOfRetries = cursor.currentNumberOfRetries
       /\ cursor'.state = cursor.state]_vars
\* a dead cursor that was never closed has answered nextObject
C26_Witness ==
  /\ cursor.cb.op = "nextObject"
  /\ cursor.cb.err = "Closed"
  /\ cursor.dead
  /\ cursor.state = OPEN
  /\ cursor.rest # <<>>

\* C27: a tailable cursor configured with numberOfRetries R >= 0 retries a
\* nextObject call exactly R times before it surfaces the tailable-retry
\* error: a call that fails with that error has made R retries, a call that
\* succeeds has made at most R; and on a new cursor whose server answers N
\* tailable-retry errors and then a document, the call gives the document
\* when N <= R and fails when N > R.  (The caller does not close the cursor
\* meanwhile.)
NextObjectEnded ==
  /\ cursor.options.tailable
  /\ ~cursor.killed
  /\ cursor.options.numberOfRetries >= 0
  /\ cursor.pc = "idle"
  /\ cursor.cb.op = "nextObject"
  /\ cursor.cb.n = 1
C28_TailableToArray ==
  [][(cursor'.ops = cursor.ops + 1 /\ cursor'.cb.op = "toArray"
        /\ cursor.options.tailable) =>
       /\ cursor'.pc = "idle"
       /\ cursor'.cb.n = 1
       /\ cursor'.cb.err = "Unsupported"
       /\ cursor'.cb.kind = "none"
       /\ cursor'.fetches = cursor.fetches
       /\ cursor'.state = cursor.state
       /\ cursor'.dead = cursor.dead
       /\ cursor'.buffer = cursor.buffer
       /\ cursor'.rest = cursor.rest]_vars
\* a tailable cursor that has handed out a document has answered toArray
C28_Witness ==
  /\ cursor.options.tailable
  /\ cursor.cb.op = "toArray"
  /\ cursor.cb.err = "Unsupported"
  /\ cursor.state = OPEN
  /\ ~cursor.dead
  /\ cursor.got # <<>>

\* C29: on a cursor that is not tailable, whatever batches the server sends,
\* toArray gives the documents not yet handed out, each once and in the
\* order of the result set; nextObject hands the documents out in that same
\* order, one a call, and gives null after the last (no toArray having
\* ended with an error on documents it had taken, and the cursor not having
\* been closed by the caller); and count gives the
\* number of documents of the result set, which is the length of the array
\* that toArray gives on a new cursor.
HandedOutInOrder ==
  /\ Len(cursor.got) <= Len(cursor.all)
  /\ cursor.got = SubSeq(cursor.all, 1, Len(cursor.got))
C29_ToArrayAsNextObject ==
  ~cursor.options.tailable =>
    /\ (cursor.cb.kind = "array" /\ cursor.dropped = <<>> /\ ~cursor.killed) =>
         /\ cursor.got \o cursor.cb.items = cursor.all
         /\ cursor.got = <<>> => Len(cursor.cb.items) = Len(cursor.all)
    /\ cursor.dropped = <<>> => HandedOutInOrder
    /\ (cursor.dropped = <<>> /\ ~cursor.killed /\ cursor.cb.op = "nextObject"
          /\ cursor.cb.kind = "null") => cursor.got = cursor.all
    /\ (cursor.cb.op = "nextObject" /\ cursor.cb.kind = "doc") =>
         (cursor.cb.n = 1 /\ cursor.cb.items = <<cursor.cb.doc>>)
    /\ cursor.cb.kind = "count" => cursor.cb.doc = Len(cursor.all)
\* toArray has given three documents that came in a batch of two and a
\* batch of one
C29_Witness ==
  /\ ~cursor.options.tailable
  /\ cursor.ops = 1
  /\ cursor.cb.op = "toArray"
  /\ cursor.cb.kind = "array"
  /\ cursor.cb.items = <<1, 2, 3>>
  /\ cursor.fetches = 3

\* C30: once toArray has given the whole array (its callback called once),
\* the cursor is in state CLOSED and stays there: every later nextObject,
\* each and toArray call calls back once with the closed error and issues
\* no fetch.  A toArray that meets an error of a fetch calls back once with
\* that error and gives no array.
PullCalled ==
  /\ cursor'.ops = cursor.ops + 1
  /\ cursor'.cb.op \in {"nextObject", "each", "toArray"}
C30_ToArrayCloses ==
  [][/\ cursor'.cb.kind = "array" => (cursor'.arrayed /\ cursor'.cb.n = 1)
     /\ cursor'.arrayed => (cursor'.state = CLOSED /\ cursor'.pc # "toArray")
     /\ (cursor.arrayed /\ PullCalled) =>
          /\ cursor'.pc = "idle"
          /\ cursor'.cb.n = 1
          /\ cursor'.cb.err = "Closed"
          /\ cursor'.cb.kind = "none"
          /\ cursor'.fetches = cursor.fetches
     /\ (cursor'.cb.op = "toArray" /\ cursor'.cb.err = "db") =>
          /\ cursor'.pc = "idle"
          /\ cursor'.cb.n = 1
          /\ cursor'.cb.kind = "none"
          /\ cursor'.cb.items = <<>>]_vars
\* after a toArray that gave two documents or more, each has been called
C30_Witness ==
  /\ cursor.arrayed
  /\ Len(cursor.all) >= 2
  /\ cursor.got = <<>>
  /\ cursor.cb.op = "each"
  /\ cursor.cb.err = "Closed"

\* C32: count on a cursor whose command has no query fails: its callback is
\* called exactly once, with an error, and no count command is sent, so no
\* reply to one is waited for.
C32_CountNeedsQuery ==
  (cursor.cb.op = "count" /\ ~cursor.cmd.query) =>
    /\ cursor.pc = "idle"
    /\ cursor.cb.n = 1
    /\ cursor.cb.err = "NotFind"
    /\ cursor.cb.kind = "none"

\* C39: on a tailable cursor configured with numberOfRetries R >= 0 the
\* remaining retry count starts at R, goes down by one exactly when a
\* tailable-retry error is retried and never goes up, and the retries made
\* over all nextObject calls of the cursor are at most R.
C39_RetryBudget ==
  [][(cursor.options.tailable /\ cursor.options.numberOfRetries >= 0) =>
       /\ cursor.ops = 0 =>
            cursor.currentNumberOfRetries = cursor.options.numberOfRetries
       /\ cursor'.currentNumberOfRetries =
            IF cursor.pc = "nextObject" /\ cursor'.pc = "retry"
              THEN cursor.currentNumberOfRetries - 1
              ELSE cursor.currentNumberOfRetries
       /\ cursor'.timers <= cursor.options.numberOfRetries]_vars

EachEnded == cursor.pc = "idle" /\ cursor.cb.op = "each"
C33_EachDrainsThenFetches ==
  [][cursor'.cb.op = "each" =>
       /\ cursor'.fetches > cursor.fetches =>
            (cursor'.buffer = <<>> /\ cursor'.pc = "each")
       /\ cursor'.pc = "each" => cursor'.buffer = <<>>
       /\ Len(cursor'.cb.items) <= Len(cursor'.got)
       /\ cursor'.cb.items =
            SubSeq(cursor'.got, Len(cursor'.got) - Len(cursor'.cb.items) + 1,
                   Len(cursor'.got))
       /\ cursor'.dropped = <<>> =>
            cursor'.got = SubSeq(cursor'.all, 1, Len(cursor'.got))
       /\ cursor'.cb.err = "none" =>
            cursor'.cb.n = Len(cursor'.cb.items)
                             + (IF cursor'.cb.kind = "null" THEN 1 ELSE 0)
       /\ (cursor'.pc = "idle" /\ cursor'.cb.err = "none"
             /\ cursor'.dropped = <<>> /\ ~cursor'.killed) =>
            (cursor'.cb.kind = "null" /\ cursor'.got = cursor.all)
       /\ (EachEnded /\ cursor'.ops = cursor.ops) => cursor'.cb = cursor.cb]_vars
\* each has handed out three documents that came in a batch of two and a
\* batch of one, and then null
C33_Witness ==
  /\ EachEnded
  /\ cursor.ops = 1
  /\ cursor.cb.kind = "null"
  /\ cursor.cb.n = 4
  /\ cursor.cb.items = <<1, 2, 3>>
  /\ cursor.fetches = 3

\* C31: limit, skip, batchSize and sort each throw and leave cmd as it is on
\* a tailable cursor, on a cursor that documents have been fetched for
\* (whichever of nextObject, each, toArray and _read fetched them) and on a
\* closed or dead cursor; and each returns with cmd updated on a cursor that
\* is not tailable, not closed, not dead and has issued no fetch yet.
ShapeCalled == cursor'.shape.n = cursor.shape.n + 1
HasFetched == cursor.rest # cursor.all
C31_ShapeOnlyBeforeFetch ==
  [][ShapeCalled =>
       /\ (cursor.options.tailable \/ HasFetched \/ cursor.state = CLOSED
             \/ cursor.dead) =>
            (cursor'.shape.err # "none" /\ cursor'.cmd = cursor.cmd)
       /\ (~cursor.options.tailable /\ cursor.fetches = 0
             /\ cursor.state # CLOSED /\ ~cursor.dead
             /\ cursor'.shape.value # NotNumber) =>
            /\ cursor'.shape.err = "none"
            /\ cursor'.shape.op = "limit" => cursor'.cmd.limit = cursor'.shape.value
            /\ cursor'.shape.op = "skip" => cursor'.cmd.skip = cursor'.shape.value
            /\ cursor'.shape.op = "batchSize" =>
                 cursor'.cmd.batchSize = cursor'.shape.value
            /\ cursor'.shape.op = "sort" => cursor'.cmd.orderby = "list"]_vars

\* C37: when a round trip made during open fails (ensureIndex on the files
\* collection, ensureIndex on the chunks collection, the lookup of the
\* metadata document, the load of a chunk, the deletion of the chunks), open
\* ends there: its callback is called, once, with the error, and the handle
\* is not open.
OpenRoundTripFails ==
  /\ pc \in {"open_index_files", "open_index_chunks", "open_find", "open_nth",
             "open_delete"}
  /\ nFail' = nFail + 1
C37_OpenReportsEveryError ==
  [][OpenRoundTripFails =>
       /\ pc' = "idle"
       /\ cb'.op = "open"
       /\ cb'.n = 1
       /\ cb'.err # "none"
       /\ ~gs'.isOpen]_vars

\* C38: a write call on a write-mode handle calls its callback exactly once,
\* whichever of the chunk saves it fans out succeed or fail and in whatever
\* order they are answered: never twice, and once when every save has been
\* answered and nothing is in flight.
C38_WriteCallsBackOnce ==
  (cb.op = "write" /\ ForWriting(gs.mode)) =>
    /\ cb.n <= 1
    /\ (pc = "idle" /\ saves = {}) => cb.n = 1

\* the file the stream is piping, as its chunk documents hold it
PipedFile == FileBytes(chunks, gs.fileId)

\* what the consumer has been given is the start of the file, in order
DeliveredInOrder ==
  /\ Len(stream.pushed) <= gs.length
  /\ stream.pushed = SubSeq(PipedFile, 1, Len(stream.pushed))
  /\ stream.eos <= 1
  /\ stream.eos = 1 =>
       /\ Len(stream.pushed) = gs.length
       /\ stream.pushed = PipedFile

\* C36: piping a stored file of length L from position 0, whatever the chunk
\* size, and no request failing, gives the consumer buffers whose
\* concatenation is the L bytes of the file in order and nothing beyond them,
\* also when the last read is partial, and then signals end-of-stream, once.
C36_PipeDeliversFile ==
  /\ []((stream.piping /\ stream.seekPosition = 0 /\ nFail = 0) => DeliveredInOrder)
  /\ (stream.piping /\ stream.seekPosition = 0) ~> (stream.eos = 1)

\* a file of more than one chunk whose last chunk is partial was piped to
\* its end
C36_Witness ==
  /\ stream.piping
  /\ nFail = 0
  /\ stream.eos = 1
  /\ gs.length > gs.internalChunkSize
  /\ gs.length % gs.internalChunkSize # 0
  /\ stream.pushed = PipedFile
  /\ Len(stream.pushed) = gs.length

\* the gs.write calls were made with the buffers of the write calls, in the
\* order of the calls
WroteInCallOrder == stream.wrote = SubSeq(stream.asked, 1, Len(stream.wrote))

\* C40: the stream opens the handle at most once, however many write calls
\* are made before the first open has called back: gs.open is called once,
\* the buffers are written in the order of the calls, no more 'drain' events
\* are emitted than writes were made, and no open answered later deletes the
\* chunks or replaces the current chunk that hold bytes of an earlier write.
C40_OpensOnce ==
  stream.made =>
    /\ stream.opens <= 1
    /\ WroteInCallOrder
    /\ stream.drains <= stream.writes
    /\ ~stream.reset

\* C35: end, with or without a final chunk, closes the handle exactly once
\* and emits 'end' exactly once, after that close has called back: never
\* twice, once when nothing is in flight any more, and with a final chunk the
\* close is not started while the final write is in flight.
C35_EndClosesOnce ==
  stream.ended =>
    /\ stream.closes <= 1
    /\ stream.ends <= 1
    /\ ~stream.early
    /\ stream.tasks = <<>> => (stream.closes = 1 /\ stream.ends = 1)

====
